---- MODULE Spec2Model ----
(***************************************************************************)
(* cgoffline: the CoinGecko API client (retry loops, health check), the    *)
(* syncs (SyncCoins, SyncCoinsData, the list syncs) and the upsert         *)
(* repositories, as a state machine.                                       *)
(*                                                                         *)
(* Encodings.  A Go error is the sequence of its wrapped messages, outer-  *)
(* most first (fmt.Errorf("...: %w", err) prepends one frame); nil is the  *)
(* empty sequence.  A nullable column or pointer field is <<>> (NULL/nil)  *)
(* or <<v>>.  The zero time.Time is 0.  A table is the sequence of its     *)
(* rows in insertion order.                                                *)
(***************************************************************************)
EXTENDS Integers, Sequences, FiniteSets, TLC

VARIABLES
    retryCount,     \* CoinGeckoClient.retryCount (API_RETRY_ATTEMPTS)
    retryDelay,     \* CoinGeckoClient.retryDelay (API_RETRY_DELAY)
    pc,             \* idle, call, the name of the sync in progress, repo, repoReturned, done
    op,             \* the client operation in progress ("none" when there is none)
    urlOK,          \* whether http.NewRequestWithContext accepts URLs built on c.baseURL
    callPage,       \* the page argument of the client call (0 when it has none)
    attempt,        \* the retry loop's counter
    lastErr,        \* the retry loop's lastErr
    callState,      \* none, loop (in the for loop), post (after break), returned
    ret,            \* what the client call returned: [value, err]
    fetched,        \* the retry loop's local result (platforms, coins, ...)
    callLog,        \* the HTTP attempts and sleeps of the client call in progress
    page,           \* SyncCoins: page
    totalFetched,   \* SyncCoins: totalFetched
    syncLog,        \* SyncCoins: its GetCoins calls, their results and its UpsertBatch calls
    result,         \* the error returned by the top-level operation
    coins,          \* table coins
    exchanges,      \* table exchanges
    coin_categories,\* table coin_categories
    asset_platforms,\* table asset_platforms
    coin_market_data,\* table coin_market_data
    lastCall,       \* the repository call just made: [repo, op, batch, failAt, err, txs, at]
    now,            \* the clock that time.Now() reads; the zero time.Time is 0
    minTotalVolume, \* SyncCoinsData: its argument
    filtered,       \* SyncCoinsData: filtered
    coinIdx,        \* SyncCoinsData: the position of the range loop in filtered
    dbDown,         \* SyncCoinsData: whether the database fails the Upserts of this pass
    dataLog,        \* SyncCoinsData: its client calls, their results and its Upsert calls
    coin_details,   \* table coin_details
    coin_tickers,   \* table coin_tickers
    ctxDone,        \* whether the deadline of the sync's context has elapsed
    upserts,        \* concurrent runs: where each is in coinTickerRepository.Upsert
    flags,          \* main: the command line flags that are set
    mainPc,         \* main: where it is
    exitStatus,     \* main: <<>> while the process runs, then its exit status
    mainLog         \* main: the actions it called and their results, the signals

vars == <<retryCount, retryDelay, pc, op, urlOK, callPage, attempt, lastErr, callState,
          ret, fetched, callLog, page, totalFetched, syncLog, result,
          coins, exchanges, coin_categories, asset_platforms, coin_market_data, lastCall, now,
          minTotalVolume, filtered, coinIdx, dbDown, dataLog, coin_details, coin_tickers,
          ctxDone, upserts, flags, mainPc, exitStatus, mainLog>>

clientVars == <<op, callPage, attempt, lastErr, callState, ret, fetched, callLog>>
syncVars == <<page, totalFetched, syncLog>>
dbVars == <<coins, exchanges, coin_categories, asset_platforms, coin_market_data>>
cfgVars == <<retryCount, retryDelay, urlOK>>
dataVars == <<minTotalVolume, filtered, coinIdx, dbDown, dataLog, coin_details, coin_tickers>>
mainVars == <<flags, mainPc, exitStatus, mainLog>>

----------------------------------------------------------------------------
(* Bounds of the model *)

MaxRetry == 2       \* largest configured retry count
MaxDelay == 2       \* largest configured retry delay (in units of time)
MaxSyncRetry == 1   \* largest configured retry count in the runs of SyncCoins
MaxPages == 3       \* the upstream coin list has at most MaxPages pages
ShortPage == 80     \* size of a coin page that is neither empty nor full
ListLen == 2        \* size of a non-empty unpaginated list or ticker payload
MaxBatch == 2       \* longest batch handed directly to a repository
MaxClock == 3       \* the runs of repository calls end when the clock reaches MaxClock
MaxCoins == 3       \* rows of the coins table a pass of SyncCoinsData starts from
MaxTickerPages == 1 \* the tickers of a coin fill at most MaxTickerPages pages
MaxFlags == 2       \* the flags set on the command line

(* Program constants *)

perPage == 250
StatusOK == 200
rateLimitDelay == 1

----------------------------------------------------------------------------
(* Errors *)

NoErr == <<>>
Frame(msg, num, key) == [msg |-> msg, num |-> num, key |-> key]
Errorf(msg, num, key, inner) == <<Frame(msg, num, key)>> \o inner

TransportErr == <<Frame("transport error", 0, <<>>)>>
UrlErr == <<Frame("invalid URL", 0, <<>>)>>
ReadErr == <<Frame("unexpected EOF", 0, <<>>)>>
JsonErr == <<Frame("invalid JSON", 0, <<>>)>>
StorageErr == <<Frame("storage error", 0, <<>>)>>
DeadlineErr == <<Frame("context deadline exceeded", 0, <<>>)>>

----------------------------------------------------------------------------
(* The upstream API: what one HTTP attempt can be answered with *)

ListOps == {"GetAssetPlatforms", "GetCoinCategories", "GetExchanges", "GetCoins",
            "GetCoinMarketData"}
InlineOps == {"GetCoinDataByID", "GetCoinTickers"}
Ops == ListOps \cup InlineOps

NoResp == [kind |-> "none", status |-> 0, body |-> "none", size |-> 0]
TransportFailure == [kind |-> "transport", status |-> 0, body |-> "none", size |-> 0]
DeadlineExceeded == [kind |-> "deadline", status |-> 0, body |-> "none", size |-> 0]
HttpResp(status, body, size) == [kind |-> "http", status |-> status, body |-> body, size |-> size]

\* The sizes a well-formed answer to operation o, page p can have.  The coin list
\* is finite: page MaxPages is never full.  The API returns at most per_page records.
\* The tickers of a coin are finite too: the pages after MaxTickerPages are empty.
Sizes(o, p) ==
    IF o = "GetCoins"
    THEN IF p >= MaxPages THEN {0, ShortPage} ELSE {0, ShortPage, perPage}
    ELSE IF o = "GetCoinTickers"
    THEN IF p > MaxTickerPages THEN {0} ELSE {0, 1, ListLen}
    ELSE {0, 1, ListLen}

\* Every answer to one attempt of operation o, page p: no answer at all, an error
\* status with an error body, a 2xx status other than 200 with a well-formed body,
\* 200 with a body that cannot be read or parsed, 200 with a well-formed body.
Responses(o, p) ==
    {TransportFailure, HttpResp(500, "malformed", 0), HttpResp(201, "wellformed", ListLen),
     HttpResp(StatusOK, "readerr", 0), HttpResp(StatusOK, "malformed", 0)}
    \cup {HttpResp(StatusOK, "wellformed", n) : n \in Sizes(o, p)}

CoinKey(k) == "coin-" \o ToString(k)

\* The JSON objects of a well-formed body of n records for operation o, page p.
\* Every other coin has no total_volume; every third ticker has no last price.
ApiBody(o, p, n) ==
    IF o = "GetCoins"
    THEN [i \in 1..n |->
            [id |-> CoinKey((p - 1) * perPage + i), name |-> "n1",
             total_volume |-> IF i % 2 = 0 THEN <<>> ELSE <<i>>]]
    ELSE IF o = "GetCoinMarketData"
    THEN [i \in 1..n |-> [last |-> IF i % 3 = 0 THEN <<>> ELSE <<i>>, volume |-> <<i>>]]
    ELSE [i \in 1..n |-> [id |-> "id-" \o ToString(i), name |-> "n1"]]

----------------------------------------------------------------------------
(* The client: one HTTP attempt *)

StatusRejectedNon2xx(status) == status < 200 \/ status > 299

\* resp.StatusCode != http.StatusOK
StatusRejected(status) == status # StatusOK

\* What all fetch functions share: build the request, Do, status check, ReadAll,
\* json.Unmarshal.  The error of the attempt, NoErr when the body was parsed.
attemptErr(ok, resp) ==
    IF ~ok THEN Errorf("failed to create request", 0, <<>>, UrlErr)
    ELSE IF resp.kind = "transport" THEN Errorf("failed to execute request", 0, <<>>, TransportErr)
    ELSE IF resp.kind = "deadline" THEN Errorf("failed to execute request", 0, <<>>, DeadlineErr)
    ELSE IF StatusRejected(resp.status)
         THEN <<Frame("API request failed with status", resp.status, <<>>)>>
    ELSE IF resp.body = "readerr" THEN Errorf("failed to read response body", 0, <<>>, ReadErr)
    ELSE IF resp.body = "malformed" THEN Errorf("failed to unmarshal response", 0, <<>>, JsonErr)
    ELSE NoErr

\* Conversions of the API objects to domain models
toAssetPlatform(a) == [id |-> a.id, name |-> a.name, created_at |-> 0, updated_at |-> 0,
                       deleted_at |-> <<>>]
toCoinCategory(a) == [id |-> 0, coingecko_id |-> a.id, name |-> a.name, created_at |-> 0,
                      updated_at |-> 0, deleted_at |-> <<>>]
toExchange(a) == [id |-> 0, coingecko_id |-> a.id, name |-> a.name, created_at |-> 0,
                  updated_at |-> 0, deleted_at |-> <<>>]
toCoin(a) == [id |-> 0, coingecko_id |-> a.id, name |-> a.name,
              total_volume |-> a.total_volume, created_at |-> 0, updated_at |-> 0,
              deleted_at |-> <<>>]
toMarketData(t) == [id |-> 0, coin_id |-> 0, exchange_id |-> 0, price |-> t.last,
                    volume_24h |-> t.volume, created_at |-> 0, updated_at |-> 0,
                    deleted_at |-> <<>>]

RECURSIVE SelectWithPrice(_)
SelectWithPrice(s) ==
    IF s = <<>> THEN <<>>
    ELSE IF Head(s).last = <<>> THEN SelectWithPrice(Tail(s))
    ELSE <<Head(s)>> \o SelectWithPrice(Tail(s))

fetchAssetPlatforms(ok, p, resp) ==
    LET e == attemptErr(ok, resp) IN
    IF e # NoErr THEN [value |-> <<>>, err |-> e]
    ELSE [value |-> LET api == ApiBody("GetAssetPlatforms", p, resp.size) IN
                     [i \in 1..Len(api) |-> toAssetPlatform(api[i])], err |-> NoErr]

fetchCoinCategories(ok, p, resp) ==
    LET e == attemptErr(ok, resp) IN
    IF e # NoErr THEN [value |-> <<>>, err |-> e]
    ELSE [value |-> LET api == ApiBody("GetCoinCategories", p, resp.size) IN
                     [i \in 1..Len(api) |-> toCoinCategory(api[i])], err |-> NoErr]

fetchExchanges(ok, p, resp) ==
    LET e == attemptErr(ok, resp) IN
    IF e # NoErr THEN [value |-> <<>>, err |-> e]
    ELSE [value |-> LET api == ApiBody("GetExchanges", p, resp.size) IN
                     [i \in 1..Len(api) |-> toExchange(api[i])], err |-> NoErr]

fetchCoins(ok, p, resp) ==
    LET e == attemptErr(ok, resp) IN
    IF e # NoErr THEN [value |-> <<>>, err |-> e]
    ELSE [value |-> LET api == ApiBody("GetCoins", p, resp.size) IN
                     [i \in 1..Len(api) |-> toCoin(api[i])], err |-> NoErr]

fetchCoinMarketData(ok, p, resp) ==
    LET e == attemptErr(ok, resp) IN
    IF e # NoErr THEN [value |-> <<>>, err |-> e]
    ELSE [value |-> LET api == SelectWithPrice(ApiBody("GetCoinMarketData", p, resp.size)) IN
                     [i \in 1..Len(api) |-> toMarketData(api[i])],
          err |-> NoErr]

\* The body of the retry loops of GetCoinDataByID and GetCoinTickers: the payload
\* is the decoded JSON object itself.
fetchPayload(o, ok, p, resp) ==
    LET e == attemptErr(ok, resp) IN
    IF e # NoErr THEN [value |-> <<>>, err |-> e]
    ELSE [value |-> ApiBody(o, p, resp.size), err |-> NoErr]

fetch(o, ok, p, resp) ==
    CASE o = "GetAssetPlatforms" -> fetchAssetPlatforms(ok, p, resp)
      [] o = "GetCoinCategories" -> fetchCoinCategories(ok, p, resp)
      [] o = "GetExchanges" -> fetchExchanges(ok, p, resp)
      [] o = "GetCoins" -> fetchCoins(ok, p, resp)
      [] o = "GetCoinMarketData" -> fetchCoinMarketData(ok, p, resp)
      [] OTHER -> fetchPayload(o, ok, p, resp)

\* The message each operation wraps its final error in
failedTo(o) ==
    CASE o = "GetAssetPlatforms" -> "failed to fetch asset platforms"
      [] o = "GetCoinCategories" -> "failed to fetch coin categories"
      [] o = "GetExchanges" -> "failed to fetch exchanges"
      [] o = "GetCoins" -> "failed to fetch coins"
      [] o = "GetCoinMarketData" -> "failed to fetch coin market data"
      [] o = "GetCoinDataByID" -> "failed to fetch coin data by id"
      [] OTHER -> "failed to fetch coin tickers"

----------------------------------------------------------------------------
(* The repositories *)

Repos == {"asset_platforms", "coin_categories", "exchanges", "coins", "coin_market_data"}

TransactionKeepsWrites(table, r, commitFails) ==
    IF r.err # NoErr THEN [table |-> r.table, err |-> r.err, txs |-> 1]
    ELSE IF commitFails THEN [table |-> table, err |-> StorageErr, txs |-> 1]
    ELSE [table |-> r.table, err |-> NoErr, txs |-> 1]

\* db.Transaction(fn): fn's writes become visible only if fn returns nil and the
\* commit succeeds; otherwise the table is as it was and the error is returned.
\* txs counts the transactions opened.
Transaction(table, r, commitFails) ==
    IF r.err # NoErr THEN [table |-> table, err |-> r.err, txs |-> 1]
    ELSE IF commitFails THEN [table |-> table, err |-> StorageErr, txs |-> 1]
    ELSE [table |-> r.table, err |-> NoErr, txs |-> 1]

\* return nil before any storage call
Untouched(table) == [table |-> table, err |-> NoErr, txs |-> 0]

\* The column(s) of the unique index (the primary key of asset_platforms)
rowKey(repo, r) ==
    CASE repo = "asset_platforms" -> <<r.id>>
      [] repo = "coin_market_data" -> <<r.coin_id, r.exchange_id>>
      [] OTHER -> <<r.coingecko_id>>

\* The rows of table t that conflict with record r on the unique index
Conflicts(repo, t, r) ==
    CASE repo = "asset_platforms" -> {i \in 1..Len(t) : t[i].id = r.id}
      [] repo = "coin_market_data" ->
            {i \in 1..Len(t) : t[i].coin_id = r.coin_id /\ t[i].exchange_id = r.exchange_id}
      [] OTHER -> {i \in 1..Len(t) : t[i].coingecko_id = r.coingecko_id}
HasKey(repo, t, r) == Conflicts(repo, t, r) # {}
IndexOf(repo, t, r) == CHOOSE i \in Conflicts(repo, t, r) : TRUE

\* if coin.CoingeckoID != "" (also: category, exchange)
NonEmptyKey(r) == r.coingecko_id # ""
\* if data.CoinID != 0 && data.ExchangeID != 0 && data.Price != nil
ValidMarketData(r) == r.coin_id # 0 /\ r.exchange_id # 0 /\ r.price # <<>>

\* coinExec with ON CONFLICT (coingecko_id) DO NOTHING
coinExecDoNothing(tx, coin) ==
    IF HasKey("coins", tx, coin) THEN tx ELSE Append(tx, [coin EXCEPT !.id = Len(tx) + 1])

\* INSERT INTO coins ... ON CONFLICT (coingecko_id) DO UPDATE SET ...
coinExec(tx, coin) ==
    IF HasKey("coins", tx, coin)
    THEN [tx EXCEPT ![IndexOf("coins", tx, coin)] =
            [@ EXCEPT !.name = coin.name, !.total_volume = coin.total_volume,
                      !.updated_at = coin.updated_at, !.deleted_at = coin.deleted_at]]
    ELSE Append(tx, [coin EXCEPT !.id = Len(tx) + 1])

\* INSERT INTO exchanges ... ON CONFLICT (coingecko_id) DO UPDATE SET ...
exchangeExec(tx, exchange) ==
    IF HasKey("exchanges", tx, exchange)
    THEN [tx EXCEPT ![IndexOf("exchanges", tx, exchange)] =
            [@ EXCEPT !.name = exchange.name, !.updated_at = exchange.updated_at,
                      !.deleted_at = exchange.deleted_at]]
    ELSE Append(tx, [exchange EXCEPT !.id = Len(tx) + 1])

\* coinCategoryExec without deleted_at = EXCLUDED.deleted_at
coinCategoryExecKeepsTombstone(tx, category) ==
    IF HasKey("coin_categories", tx, category)
    THEN [tx EXCEPT ![IndexOf("coin_categories", tx, category)] =
            [@ EXCEPT !.name = category.name, !.updated_at = category.updated_at]]
    ELSE Append(tx, [category EXCEPT !.id = Len(tx) + 1])

\* INSERT INTO coin_categories ... ON CONFLICT (coingecko_id) DO UPDATE SET ...
coinCategoryExec(tx, category) ==
    IF HasKey("coin_categories", tx, category)
    THEN [tx EXCEPT ![IndexOf("coin_categories", tx, category)] =
            [@ EXCEPT !.name = category.name, !.updated_at = category.updated_at,
                      !.deleted_at = category.deleted_at]]
    ELSE Append(tx, [category EXCEPT !.id = Len(tx) + 1])

\* INSERT INTO coin_market_data ... ON CONFLICT (coin_id, exchange_id) DO UPDATE SET ...
coinMarketDataExec(tx, data) ==
    IF HasKey("coin_market_data", tx, data)
    THEN [tx EXCEPT ![IndexOf("coin_market_data", tx, data)] =
            [@ EXCEPT !.price = data.price, !.volume_24h = data.volume_24h,
                      !.updated_at = data.updated_at, !.deleted_at = data.deleted_at]]
    ELSE Append(tx, [data EXCEPT !.id = Len(tx) + 1])

\* tx.Save(&platform).  GORM's Save creates the row when the primary key is the
\* zero value (a plain INSERT, which the primary key rejects when a row with the
\* empty id is there already) and otherwise updates the row of that id, or
\* inserts it when there is none.  Save writes every column of the struct, the
\* zero ones too, and GORM sets UpdatedAt (and a zero CreatedAt of a new row) to
\* the current time.
assetPlatformSave(tx, platform) ==
    LET created == [platform EXCEPT !.created_at = IF @ = 0 THEN now ELSE @, !.updated_at = now]
        updated == [platform EXCEPT !.updated_at = now]
    IN
    IF platform.id = ""
    THEN IF HasKey("asset_platforms", tx, platform)
         THEN [table |-> tx, err |-> <<Frame("duplicate key", 0, <<>>)>>]
         ELSE [table |-> Append(tx, created), err |-> NoErr]
    ELSE IF HasKey("asset_platforms", tx, platform)
         THEN [table |-> [tx EXCEPT ![IndexOf("asset_platforms", tx, platform)] = updated],
               err |-> NoErr]
         ELSE [table |-> Append(tx, created), err |-> NoErr]

upsertMsg(repo) ==
    CASE repo = "asset_platforms" -> "failed to upsert asset platform"
      [] repo = "coin_categories" -> "failed to upsert coin category"
      [] repo = "exchanges" -> "failed to upsert exchange"
      [] repo = "coins" -> "failed to upsert coin"
      [] OTHER -> "failed to upsert market data"

\* One iteration of the loop of a transaction body: the statement, and the
\* wrapped error when it fails
execOne(repo, tx, rec) ==
    LET r == CASE repo = "asset_platforms" -> assetPlatformSave(tx, rec)
               [] repo = "coin_categories" -> [table |-> coinCategoryExec(tx, rec), err |-> NoErr]
               [] repo = "exchanges" -> [table |-> exchangeExec(tx, rec), err |-> NoErr]
               [] repo = "coins" -> [table |-> coinExec(tx, rec), err |-> NoErr]
               [] OTHER -> [table |-> coinMarketDataExec(tx, rec), err |-> NoErr]
    IN IF r.err # NoErr
       THEN [table |-> tx, err |-> Errorf(upsertMsg(repo), 0, rowKey(repo, rec), r.err)]
       ELSE r

RECURSIVE execRange(_, _, _, _, _)
\* Iterations lo..hi of the loop of a transaction body, in order, stopping at the
\* first error.  The range is split in halves, and the left half is evaluated
\* before the right half is entered, only to keep TLC's evaluation shallow.
\* The state after the left half, the table and the record of one iteration are
\* bound as elements of singleton sets, so that TLC computes each of them once.
execRange(repo, st, valid, lo, hi) ==
    IF lo > hi \/ st.err # NoErr THEN st
    ELSE IF lo = hi
    THEN CHOOSE r \in {execOne(repo, tx, rec) : tx \in {st.table}, rec \in {valid[lo]}} : TRUE
    ELSE LET mid == (lo + hi) \div 2 IN
         CHOOSE r \in {IF left.err # NoErr THEN left
                       ELSE execRange(repo, left, valid, mid + 1, hi) :
                            left \in {execRange(repo, st, valid, lo, mid)}} : TRUE

\* The loop of the transaction body.  failAt: the iteration whose statement the
\* database fails (none when failAt is not in 1..Len(valid)).
execAll(repo, tx, valid, failAt) ==
    IF failAt \in 1..Len(valid)
    THEN LET before == execRange(repo, [table |-> tx, err |-> NoErr], valid, 1, failAt - 1) IN
         IF before.err # NoErr THEN before
         ELSE [table |-> before.table,
               err |-> Errorf(upsertMsg(repo), 0, rowKey(repo, valid[failAt]), StorageErr)]
    ELSE execRange(repo, [table |-> tx, err |-> NoErr], valid, 1, Len(valid))

\* The UpsertBatch functions.  failAt: 0 for no failure, i for a failure of the
\* i-th statement, Len(valid)+1 for a failure of the commit.
coinUpsertBatch(table, batch, failAt) ==
    IF Len(batch) = 0 THEN Untouched(table)
    ELSE LET valid == SelectSeq(batch, NonEmptyKey) IN
         IF Len(valid) = 0 THEN Untouched(table)
         ELSE CHOOSE t \in {Transaction(table, r, failAt = Len(valid) + 1) :
                                r \in {execAll("coins", table, valid, failAt)}} : TRUE

\* exchangeUpsertBatch that replaces the stored rows by the batch
exchangeUpsertBatchReplaces(table, batch, failAt) ==
    IF Len(batch) = 0 THEN Untouched(table)
    ELSE LET valid == SelectSeq(batch, NonEmptyKey) IN
         IF Len(valid) = 0 THEN Untouched(table)
         ELSE Transaction(table, execAll("exchanges", <<>>, valid, failAt),
                          failAt = Len(valid) + 1)

exchangeUpsertBatch(table, batch, failAt) ==
    IF Len(batch) = 0 THEN Untouched(table)
    ELSE LET valid == SelectSeq(batch, NonEmptyKey) IN
         IF Len(valid) = 0 THEN Untouched(table)
         ELSE Transaction(table, execAll("exchanges", table, valid, failAt),
                          failAt = Len(valid) + 1)

coinCategoryUpsertBatch(table, batch, failAt) ==
    IF Len(batch) = 0 THEN Untouched(table)
    ELSE LET valid == SelectSeq(batch, NonEmptyKey) IN
         IF Len(valid) = 0 THEN Untouched(table)
         ELSE Transaction(table, execAll("coin_categories", table, valid, failAt),
                          failAt = Len(valid) + 1)

coinMarketDataUpsertBatch(table, batch, failAt) ==
    IF Len(batch) = 0 THEN Untouched(table)
    ELSE LET valid == SelectSeq(batch, ValidMarketData) IN
         IF Len(valid) = 0 THEN Untouched(table)
         ELSE Transaction(table, execAll("coin_market_data", table, valid, failAt),
                          failAt = Len(valid) + 1)

assetPlatformUpsertBatchNoEmptyTest(table, batch, failAt) ==
    Transaction(table, execAll("asset_platforms", table, batch, failAt), failAt = Len(batch) + 1)

assetPlatformUpsertBatch(table, batch, failAt) ==
    IF Len(batch) = 0 THEN Untouched(table)
    ELSE Transaction(table, execAll("asset_platforms", table, batch, failAt),
                     failAt = Len(batch) + 1)

UpsertBatch(repo, table, batch, failAt) ==
    CASE repo = "asset_platforms" -> assetPlatformUpsertBatch(table, batch, failAt)
      [] repo = "coin_categories" -> coinCategoryUpsertBatch(table, batch, failAt)
      [] repo = "exchanges" -> exchangeUpsertBatch(table, batch, failAt)
      [] repo = "coins" -> coinUpsertBatch(table, batch, failAt)
      [] OTHER -> coinMarketDataUpsertBatch(table, batch, failAt)

----------------------------------------------------------------------------
(* The client: the retry loops *)

NoRet == [value |-> <<>>, err |-> NoErr]
Slept(d) == [ev |-> "sleep", d |-> d, resp |-> NoResp]
Attempted(resp) == [ev |-> "attempt", d |-> 0, resp |-> resp]

loopCondOneMore(att) == att <= retryCount + 1

\* attempt <= c.retryCount
loopCond(att) == att <= retryCount

\* if attempt > 0 { time.Sleep(c.retryDelay) }
retrySleep(att) == IF att > 0 THEN <<Slept(retryDelay)>> ELSE <<>>

\* Entry of a client operation: the locals before the loop
startCall(o, p) ==
    /\ op' = o
    /\ callPage' = p
    /\ attempt' = 0
    /\ lastErr' = NoErr
    /\ fetched' = <<>>
    /\ callState' = "loop"
    /\ ret' = NoRet
    /\ callLog' = <<>>

\* ListAttempt with a lastErr that a later success does not clear
ListAttemptKeepsErr(resp) ==
    /\ callState = "loop"
    /\ op \in ListOps
    /\ loopCond(attempt)
    /\ LET r == fetch(op, urlOK, callPage, resp) IN
        /\ callLog' = callLog \o retrySleep(attempt)
                              \o (IF urlOK THEN <<Attempted(resp)>> ELSE <<>>)
        /\ fetched' = r.value
        /\ lastErr' = IF r.err = NoErr THEN lastErr ELSE r.err
        /\ IF r.err = NoErr
           THEN callState' = "post" /\ attempt' = attempt
           ELSE callState' = "loop" /\ attempt' = attempt + 1
    /\ UNCHANGED <<op, callPage, ret>>

\* ListAttempt with a lastErr that keeps the first error
ListAttemptFirstErr(resp) ==
    /\ callState = "loop"
    /\ op \in ListOps
    /\ loopCond(attempt)
    /\ LET r == fetch(op, urlOK, callPage, resp) IN
        /\ callLog' = callLog \o retrySleep(attempt)
                              \o (IF urlOK THEN <<Attempted(resp)>> ELSE <<>>)
        /\ fetched' = r.value
        /\ lastErr' = IF r.err # NoErr /\ lastErr # NoErr THEN lastErr ELSE r.err
        /\ IF r.err = NoErr
           THEN callState' = "post" /\ attempt' = attempt
           ELSE callState' = "loop" /\ attempt' = attempt + 1
    /\ UNCHANGED <<op, callPage, ret>>

\* One iteration of the retry loop of GetAssetPlatforms, GetCoinCategories,
\* GetExchanges, GetCoins, GetCoinMarketData
ListAttempt(resp) ==
    /\ callState = "loop"
    /\ op \in ListOps
    /\ loopCond(attempt)
    /\ LET r == fetch(op, urlOK, callPage, resp) IN
        /\ callLog' = callLog \o retrySleep(attempt)
                              \o (IF urlOK THEN <<Attempted(resp)>> ELSE <<>>)
        /\ fetched' = r.value
        /\ lastErr' = r.err
        /\ IF r.err = NoErr
           THEN callState' = "post" /\ attempt' = attempt
           ELSE callState' = "loop" /\ attempt' = attempt + 1
    /\ UNCHANGED <<op, callPage, ret>>

\* After the loop of a list operation
ListReturn ==
    /\ op \in ListOps
    /\ \/ callState = "post"
       \/ callState = "loop" /\ ~loopCond(attempt)
    /\ ret' = IF lastErr # NoErr
              THEN [value |-> <<>>, err |-> Errorf(failedTo(op), 0, <<>>, lastErr)]
              ELSE [value |-> fetched, err |-> NoErr]
    /\ callState' = "returned"
    /\ UNCHANGED <<op, callPage, attempt, lastErr, fetched, callLog>>

\* InlineAttempt that returns a json.Unmarshal error at once
InlineAttemptUnmarshalReturns(resp) ==
    /\ callState = "loop"
    /\ op \in InlineOps
    /\ loopCond(attempt)
    /\ LET r == fetchPayload(op, TRUE, callPage, resp) IN
        IF ~urlOK
        THEN /\ callLog' = callLog \o retrySleep(attempt)
             /\ ret' = [value |-> <<>>, err |-> Errorf("failed to create request", 0, <<>>, UrlErr)]
             /\ callState' = "returned"
             /\ UNCHANGED <<attempt, lastErr>>
        ELSE /\ callLog' = callLog \o retrySleep(attempt) \o <<Attempted(resp)>>
             /\ IF r.err # NoErr /\ Head(r.err).msg = "failed to unmarshal response"
                THEN /\ ret' = [value |-> <<>>, err |-> r.err]
                     /\ callState' = "returned"
                     /\ UNCHANGED <<attempt, lastErr>>
                ELSE IF r.err # NoErr
                THEN /\ lastErr' = r.err
                     /\ attempt' = attempt + 1
                     /\ UNCHANGED <<ret, callState>>
                ELSE /\ ret' = [value |-> r.value, err |-> NoErr]
                     /\ callState' = "returned"
                     /\ UNCHANGED <<attempt, lastErr>>
    /\ UNCHANGED <<op, callPage, fetched>>

\* One iteration of the retry loop of GetCoinDataByID, GetCoinTickers
InlineAttempt(resp) ==
    /\ callState = "loop"
    /\ op \in InlineOps
    /\ loopCond(attempt)
    /\ LET r == fetchPayload(op, TRUE, callPage, resp) IN
        IF ~urlOK
        THEN /\ callLog' = callLog \o retrySleep(attempt)
             /\ ret' = [value |-> <<>>, err |-> Errorf("failed to create request", 0, <<>>, UrlErr)]
             /\ callState' = "returned"
             /\ UNCHANGED <<attempt, lastErr>>
        ELSE /\ callLog' = callLog \o retrySleep(attempt) \o <<Attempted(resp)>>
             /\ IF r.err # NoErr
                THEN /\ lastErr' = r.err
                     /\ attempt' = attempt + 1
                     /\ UNCHANGED <<ret, callState>>
                ELSE /\ ret' = [value |-> r.value, err |-> NoErr]
                     /\ callState' = "returned"
                     /\ UNCHANGED <<attempt, lastErr>>
    /\ UNCHANGED <<op, callPage, fetched>>

\* After the loop of GetCoinDataByID, GetCoinTickers
InlineReturn ==
    /\ callState = "loop"
    /\ op \in InlineOps
    /\ ~loopCond(attempt)
    /\ ret' = [value |-> <<>>, err |-> Errorf(failedTo(op), 0, <<>>, lastErr)]
    /\ callState' = "returned"
    /\ UNCHANGED <<op, callPage, attempt, lastErr, fetched, callLog>>

AnswersIgnoringDeadline == Responses(op, callPage)

\* What httpClient.Do can give the attempt made now: the request carries ctx, so
\* once the deadline has elapsed Do returns the context's error
Answers == IF ctxDone THEN {DeadlineExceeded} ELSE Responses(op, callPage)

ClientStep ==
    /\ \/ \E resp \in Answers : ListAttempt(resp)
       \/ ListReturn
       \/ \E resp \in Answers : InlineAttempt(resp)
       \/ InlineReturn
    /\ UNCHANGED <<pc, result, lastCall>>
    /\ UNCHANGED cfgVars
    /\ UNCHANGED now
    /\ UNCHANGED ctxDone
    /\ UNCHANGED upserts
    /\ UNCHANGED mainVars
    /\ UNCHANGED dataVars
    /\ UNCHANGED syncVars
    /\ UNCHANGED dbVars

\* A full page of operation o
FullPage(o) == HttpResp(StatusOK, "wellformed", IF o = "GetCoins" THEN perPage ELSE ListLen)
\* The last page number the model follows an upstream that never ends to
PageCap(o) ==
    IF o = "GetCoins" THEN MaxPages
    ELSE IF o = "GetCoinTickers" THEN MaxTickerPages + 1
    ELSE 1

EndlessAnswersIgnoringDeadline ==
    IF callPage > PageCap(op) THEN {}
    ELSE {TransportFailure, HttpResp(StatusOK, "wellformed", 0), FullPage(op)}
         \cup (IF op = "GetCoins" THEN {HttpResp(StatusOK, "wellformed", ShortPage)} ELSE {})

\* What httpClient.Do can give the attempt made now when the upstream has a full
\* page for every page number: no answer, an empty page, a short one where the
\* caller tells it from a full one, a full page.  The model follows the pages up
\* to PageCap: past it, only the end of the deadline is looked at.
EndlessAnswers ==
    IF ctxDone THEN {DeadlineExceeded}
    ELSE IF callPage > PageCap(op) THEN {}
    ELSE {TransportFailure, HttpResp(StatusOK, "wellformed", 0), FullPage(op)}
         \cup (IF op = "GetCoins" THEN {HttpResp(StatusOK, "wellformed", ShortPage)} ELSE {})

\* A step of the client against such an upstream
ClientStepEndless ==
    /\ \/ \E resp \in EndlessAnswers : ListAttempt(resp)
       \/ ListReturn
       \/ \E resp \in EndlessAnswers : InlineAttempt(resp)
       \/ InlineReturn
    /\ UNCHANGED <<pc, result, lastCall>>
    /\ UNCHANGED cfgVars
    /\ UNCHANGED now
    /\ UNCHANGED ctxDone
    /\ UNCHANGED upserts
    /\ UNCHANGED mainVars
    /\ UNCHANGED dataVars
    /\ UNCHANGED syncVars
    /\ UNCHANGED dbVars

\* The page arguments of operation o (1 for the operations that take none)
PagesOf(o) ==
    IF o = "GetCoins" THEN 1..MaxPages
    ELSE IF o = "GetCoinTickers" THEN 1..(MaxTickerPages + 1)
    ELSE {1}

\* A caller invokes one client operation
CallClient(o, p) ==
    /\ pc = "idle"
    /\ pc' = "call"
    /\ startCall(o, p)
    /\ UNCHANGED <<result, lastCall>>
    /\ UNCHANGED cfgVars
    /\ UNCHANGED now
    /\ UNCHANGED ctxDone
    /\ UNCHANGED upserts
    /\ UNCHANGED mainVars
    /\ UNCHANGED dataVars
    /\ UNCHANGED syncVars
    /\ UNCHANGED dbVars

\* and gets its result
ClientReturned ==
    /\ pc = "call"
    /\ callState = "returned"
    /\ pc' = "done"
    /\ result' = ret.err
    /\ UNCHANGED lastCall
    /\ UNCHANGED clientVars
    /\ UNCHANGED cfgVars
    /\ UNCHANGED now
    /\ UNCHANGED ctxDone
    /\ UNCHANGED upserts
    /\ UNCHANGED mainVars
    /\ UNCHANGED dataVars
    /\ UNCHANGED syncVars
    /\ UNCHANGED dbVars

----------------------------------------------------------------------------
(* coinService.SyncCoins *)

Fetch(p) == [ev |-> "fetch", page |-> p, n |-> 0, err |-> NoErr]
Fetched(p, r) == [ev |-> "fetched", page |-> p, n |-> Len(r.value), err |-> r.err]
Stored(p, n, e) == [ev |-> "store", page |-> p, n |-> n, err |-> e]
Paused(p) == [ev |-> "sleep", page |-> p, n |-> rateLimitDelay, err |-> NoErr]

\* The failure points tried for a batch of n valid records
FailPoints(n) == {0, 1, n, n + 1}

\* Entry: the GetAll for the count log, then the first GetCoins
SyncCoinsStart(getAllFails) ==
    /\ pc = "idle"
    /\ IF getAllFails
       THEN /\ pc' = "done"
            /\ result' = Errorf("failed to get current coins", 0, <<>>,
                                Errorf("failed to get all coins", 0, <<>>, StorageErr))
            /\ UNCHANGED clientVars
            /\ UNCHANGED syncVars
       ELSE /\ pc' = "SyncCoins"
            /\ page' = 1
            /\ totalFetched' = 0
            /\ syncLog' = <<Fetch(1)>>
            /\ startCall("GetCoins", 1)
            /\ UNCHANGED result
    /\ UNCHANGED lastCall
    /\ UNCHANGED cfgVars
    /\ UNCHANGED now
    /\ UNCHANGED ctxDone
    /\ UNCHANGED upserts
    /\ UNCHANGED mainVars
    /\ UNCHANGED dataVars
    /\ UNCHANGED dbVars

\* The GetAll after the loop and the return
syncCoinsFinish(getAllFails) ==
    /\ pc' = "done"
    /\ result' = IF getAllFails
                 THEN Errorf("failed to get updated coins", 0, <<>>,
                             Errorf("failed to get all coins", 0, <<>>, StorageErr))
                 ELSE NoErr

shortPageIsEmpty(n) == n = 0

\* if len(apiCoins) < perPage { break }
shortPage(n) == n < perPage

\* SyncCoinsFetchFailed that undoes the pages stored so far
SyncCoinsFetchFailedRollsBack ==
    /\ pc = "SyncCoins"
    /\ callState = "returned"
    /\ ret.err # NoErr
    /\ syncLog' = Append(syncLog, Fetched(page, ret))
    /\ pc' = "done"
    /\ result' = Errorf("failed to fetch coins page", page, <<>>, ret.err)
    /\ coins' = <<>>
    /\ UNCHANGED <<exchanges, coin_categories, asset_platforms, coin_market_data>>
    /\ UNCHANGED <<page, totalFetched, lastCall>>
    /\ UNCHANGED clientVars
    /\ UNCHANGED cfgVars
    /\ UNCHANGED now
    /\ UNCHANGED ctxDone
    /\ UNCHANGED upserts
    /\ UNCHANGED mainVars
    /\ UNCHANGED dataVars

\* GetCoins returned an error
SyncCoinsFetchFailed ==
    /\ pc = "SyncCoins"
    /\ callState = "returned"
    /\ ret.err # NoErr
    /\ syncLog' = Append(syncLog, Fetched(page, ret))
    /\ pc' = "done"
    /\ result' = Errorf("failed to fetch coins page", page, <<>>, ret.err)
    /\ UNCHANGED <<page, totalFetched, lastCall>>
    /\ UNCHANGED clientVars
    /\ UNCHANGED cfgVars
    /\ UNCHANGED now
    /\ UNCHANGED ctxDone
    /\ UNCHANGED upserts
    /\ UNCHANGED mainVars
    /\ UNCHANGED dataVars
    /\ UNCHANGED dbVars

\* GetCoins returned no coins: break
SyncCoinsEmptyPage(getAllFails) ==
    /\ pc = "SyncCoins"
    /\ callState = "returned"
    /\ ret.err = NoErr
    /\ Len(ret.value) = 0
    /\ syncLog' = Append(syncLog, Fetched(page, ret))
    /\ syncCoinsFinish(getAllFails)
    /\ UNCHANGED <<page, totalFetched, lastCall>>
    /\ UNCHANGED clientVars
    /\ UNCHANGED cfgVars
    /\ UNCHANGED now
    /\ UNCHANGED ctxDone
    /\ UNCHANGED upserts
    /\ UNCHANGED mainVars
    /\ UNCHANGED dataVars
    /\ UNCHANGED dbVars

\* SyncCoinsStore that tests for the short page before it stores
SyncCoinsStoreAfterTest(failAt, getAllFails) ==
    /\ pc = "SyncCoins"
    /\ callState = "returned"
    /\ ret.err = NoErr
    /\ Len(ret.value) # 0
    /\ LET apiCoins == ret.value
           up == IF shortPage(Len(apiCoins)) THEN Untouched(coins)
                 ELSE coinUpsertBatch(coins, apiCoins, failAt)
       IN
        /\ coins' = up.table
        /\ IF up.err # NoErr
           THEN /\ syncLog' = syncLog \o <<Fetched(page, ret), Stored(page, Len(apiCoins), up.err)>>
                /\ pc' = "done"
                /\ result' = Errorf("failed to store coins page", page, <<>>, up.err)
                /\ UNCHANGED <<page, totalFetched>>
                /\ UNCHANGED clientVars
           ELSE /\ totalFetched' = totalFetched + Len(apiCoins)
                /\ IF shortPage(Len(apiCoins))
                   THEN /\ syncLog' = Append(syncLog, Fetched(page, ret))
                        /\ syncCoinsFinish(getAllFails)
                        /\ UNCHANGED page
                        /\ UNCHANGED clientVars
                   ELSE /\ page' = page + 1
                        /\ syncLog' = syncLog \o <<Fetched(page, ret),
                                                   Stored(page, Len(apiCoins), NoErr),
                                                   Paused(page), Fetch(page + 1)>>
                        /\ startCall("GetCoins", page + 1)
                        /\ UNCHANGED <<pc, result>>
    /\ UNCHANGED <<exchanges, coin_categories, asset_platforms, coin_market_data, lastCall>>
    /\ UNCHANGED cfgVars
    /\ UNCHANGED now
    /\ UNCHANGED ctxDone
    /\ UNCHANGED upserts
    /\ UNCHANGED mainVars
    /\ UNCHANGED dataVars


\* GetCoins returned coins: UpsertBatch, then stop on error or on a short page,
\* else sleep and fetch the next page
SyncCoinsStore(failAt, getAllFails) ==
    /\ pc = "SyncCoins"
    /\ callState = "returned"
    /\ ret.err = NoErr
    /\ Len(ret.value) # 0
    /\ \E up \in {coinUpsertBatch(coins, ret.value, failAt)} :
       LET apiCoins == ret.value IN
        /\ coins' = up.table
        /\ IF up.err # NoErr
           THEN /\ syncLog' = syncLog \o <<Fetched(page, ret), Stored(page, Len(apiCoins), up.err)>>
                /\ pc' = "done"
                /\ result' = Errorf("failed to store coins page", page, <<>>, up.err)
                /\ UNCHANGED <<page, totalFetched>>
                /\ UNCHANGED clientVars
           ELSE /\ totalFetched' = totalFetched + Len(apiCoins)
                /\ IF shortPage(Len(apiCoins))
                   THEN /\ syncLog' = syncLog \o <<Fetched(page, ret),
                                                   Stored(page, Len(apiCoins), NoErr)>>
                        /\ syncCoinsFinish(getAllFails)
                        /\ UNCHANGED page
                        /\ UNCHANGED clientVars
                   ELSE /\ page' = page + 1
                        /\ syncLog' = syncLog \o <<Fetched(page, ret),
                                                   Stored(page, Len(apiCoins), NoErr),
                                                   Paused(page), Fetch(page + 1)>>
                        /\ startCall("GetCoins", page + 1)
                        /\ UNCHANGED <<pc, result>>
    /\ UNCHANGED <<exchanges, coin_categories, asset_platforms, coin_market_data, lastCall>>
    /\ UNCHANGED cfgVars
    /\ UNCHANGED now
    /\ UNCHANGED ctxDone
    /\ UNCHANGED upserts
    /\ UNCHANGED mainVars
    /\ UNCHANGED dataVars

\* The deadline of the context of SyncCoins (context.WithTimeout) elapses.  The
\* context is handed to GetCoins only: the sleeps, UpsertBatch and GetAll go on.
\* The event tells whether the retry loop of the current page was over by then.
DeadlineElapsed(p, n) == [ev |-> "deadline", page |-> p, n |-> n, err |-> DeadlineErr]

DeadlineElapses ==
    /\ pc = "SyncCoins"
    /\ ~ctxDone
    /\ ctxDone' = TRUE
    /\ UNCHANGED upserts
    /\ UNCHANGED mainVars
    /\ syncLog' = Append(syncLog, DeadlineElapsed(page, IF callState = "loop" THEN 0 ELSE 1))
    /\ UNCHANGED <<pc, result, page, totalFetched, lastCall>>
    /\ UNCHANGED clientVars
    /\ UNCHANGED cfgVars
    /\ UNCHANGED now
    /\ UNCHANGED dataVars
    /\ UNCHANGED dbVars

----------------------------------------------------------------------------
(* Direct calls of the repositories *)

\* The natural keys and names of the records: an empty key, a key with two
\* versions of its record, another key
KeyNames == {<<"", "n1">>, <<"a", "n1">>, <<"a", "n2">>, <<"b", "n1">>}

\* The records a caller can hand to a repository: as the client builds them, the
\* market data with the ids of a coin and an exchange, with one of them or the
\* price missing
RepoRecords(repo) ==
    CASE repo = "asset_platforms" -> {toAssetPlatform([id |-> kn[1], name |-> kn[2]]) : kn \in KeyNames}
      [] repo = "coin_categories" -> {toCoinCategory([id |-> kn[1], name |-> kn[2]]) : kn \in KeyNames}
      [] repo = "exchanges" -> {toExchange([id |-> kn[1], name |-> kn[2]]) : kn \in KeyNames}
      [] repo = "coins" ->
            {toCoin([id |-> kn[1], name |-> kn[2], total_volume |-> <<1>>]) : kn \in KeyNames}
      [] OTHER ->
            {[toMarketData([last |-> pr, volume |-> <<1>>]) EXCEPT !.coin_id = c, !.exchange_id = 1] :
                c \in 1..2, pr \in {<<1>>, <<2>>}}
            \cup {[toMarketData([last |-> <<1>>, volume |-> <<1>>])
                        EXCEPT !.coin_id = ids[1], !.exchange_id = ids[2]] : ids \in {<<0, 1>>, <<1, 0>>}}
            \cup {[toMarketData([last |-> <<>>, volume |-> <<1>>]) EXCEPT !.coin_id = 1, !.exchange_id = 1]}

Batches(repo) == UNION {[1..n -> RepoRecords(repo)] : n \in 0..MaxBatch}

TableOf(repo) ==
    CASE repo = "asset_platforms" -> asset_platforms
      [] repo = "coin_categories" -> coin_categories
      [] repo = "exchanges" -> exchanges
      [] repo = "coins" -> coins
      [] OTHER -> coin_market_data

\* No repository call has been made, or the caller is done with the last one
\* (before: the table as the call found it)
NoCall(repo) == [repo |-> repo, op |-> "none", batch |-> <<>>, failAt |-> 0, err |-> NoErr,
                 txs |-> 0, at |-> 0, before |-> <<>>]

\* A caller hands a batch to the repository's UpsertBatch
RepoUpsertBatch(repo, batch, failAt) ==
    /\ pc = "repo"
    /\ now < MaxClock
    /\ lastCall.repo = repo
    /\ pc' = "repoReturned"
    /\ LET up == UpsertBatch(repo, TableOf(repo), batch, failAt) IN
        /\ asset_platforms' = IF repo = "asset_platforms" THEN up.table ELSE asset_platforms
        /\ coin_categories' = IF repo = "coin_categories" THEN up.table ELSE coin_categories
        /\ exchanges' = IF repo = "exchanges" THEN up.table ELSE exchanges
        /\ coins' = IF repo = "coins" THEN up.table ELSE coins
        /\ coin_market_data' = IF repo = "coin_market_data" THEN up.table ELSE coin_market_data
        /\ lastCall' = [repo |-> repo, op |-> "UpsertBatch", batch |-> batch,
                        failAt |-> failAt, err |-> up.err, txs |-> up.txs, at |-> now,
                        before |-> TableOf(repo)]
    /\ now' = now + 1
    /\ UNCHANGED result
    /\ UNCHANGED dataVars
    /\ UNCHANGED ctxDone
    /\ UNCHANGED upserts
    /\ UNCHANGED mainVars
    /\ UNCHANGED clientVars
    /\ UNCHANGED cfgVars
    /\ UNCHANGED syncVars

\* r.db.Delete(&domain.CoinCategory{}, "id = ?", id): the model has a DeletedAt
\* field, so GORM turns the delete into
\* UPDATE coin_categories SET deleted_at = now WHERE id = ? AND deleted_at IS NULL
coinCategoryDelete(table, id, fails) ==
    IF fails
    THEN [table |-> table, err |-> Errorf("failed to delete coin category", 0, <<>>, StorageErr)]
    ELSE [table |-> [i \in 1..Len(table) |->
                        IF table[i].id = id /\ table[i].deleted_at = <<>>
                        THEN [table[i] EXCEPT !.deleted_at = <<now>>]
                        ELSE table[i]],
          err |-> NoErr]

\* A caller soft-deletes a coin category by its id, between two UpsertBatch
\* calls: the clock is read, its next tick comes with the next UpsertBatch
RepoDelete(id, fails) ==
    /\ pc = "repo"
    /\ lastCall.repo = "coin_categories"
    /\ pc' = "repoReturned"
    /\ LET del == coinCategoryDelete(coin_categories, id, fails) IN
        /\ coin_categories' = del.table
        /\ lastCall' = [repo |-> "coin_categories", op |-> "Delete", batch |-> <<>>,
                        failAt |-> IF fails THEN 1 ELSE 0, err |-> del.err, txs |-> 0,
                        at |-> now, before |-> coin_categories]
    /\ UNCHANGED now
    /\ UNCHANGED <<asset_platforms, exchanges, coins, coin_market_data>>
    /\ UNCHANGED result
    /\ UNCHANGED dataVars
    /\ UNCHANGED ctxDone
    /\ UNCHANGED upserts
    /\ UNCHANGED mainVars
    /\ UNCHANGED clientVars
    /\ UNCHANGED cfgVars
    /\ UNCHANGED syncVars

\* The caller has seen the result and is ready for its next call
RepoReturned ==
    /\ pc = "repoReturned"
    /\ pc' = "repo"
    /\ lastCall' = NoCall(lastCall.repo)
    /\ UNCHANGED result
    /\ UNCHANGED clientVars
    /\ UNCHANGED cfgVars
    /\ UNCHANGED now
    /\ UNCHANGED ctxDone
    /\ UNCHANGED upserts
    /\ UNCHANGED mainVars
    /\ UNCHANGED dataVars
    /\ UNCHANGED syncVars
    /\ UNCHANGED dbVars

----------------------------------------------------------------------------
(* The list services: SyncAssetPlatforms, SyncCoinCategories, SyncExchanges *)

\* The answers to the one GET of /ping (its body is never read)
PingResponses ==
    {TransportFailure, HttpResp(500, "malformed", 0), HttpResp(201, "wellformed", 0),
     HttpResp(StatusOK, "wellformed", 0)}

HealthCheckNoStatusTest(ok, resp) ==
    IF ~ok THEN Errorf("failed to create health check request", 0, <<>>, UrlErr)
    ELSE IF resp.kind = "transport" THEN Errorf("health check failed", 0, <<>>, TransportErr)
    ELSE NoErr

\* CoinGeckoClient.HealthCheck: one request, no retry loop
HealthCheck(ok, resp) ==
    IF ~ok THEN Errorf("failed to create health check request", 0, <<>>, UrlErr)
    ELSE IF resp.kind = "transport" THEN Errorf("health check failed", 0, <<>>, TransportErr)
    ELSE IF resp.status # StatusOK
         THEN <<Frame("health check failed with status", resp.status, <<>>)>>
    ELSE NoErr

Pinged(resp, e) == [ev |-> "ping", page |-> 0, n |-> resp.status, err |-> e]

\* table repo becomes t, the other tables stay
SetTable(repo, t) ==
    /\ asset_platforms' = IF repo = "asset_platforms" THEN t ELSE asset_platforms
    /\ coin_categories' = IF repo = "coin_categories" THEN t ELSE coin_categories
    /\ exchanges' = IF repo = "exchanges" THEN t ELSE exchanges
    /\ coins' = IF repo = "coins" THEN t ELSE coins
    /\ coin_market_data' = IF repo = "coin_market_data" THEN t ELSE coin_market_data

\* SyncX up to the list request of FetchAndStoreX: the GetAll for the count log
\* (its error is only logged), the health check, then GetX
fetchAndStoreStart(svc, o, noun, resp) ==
    /\ pc = "idle"
    /\ LET err == HealthCheck(urlOK, resp) IN
       IF err # NoErr
       THEN /\ pc' = "done"
            /\ syncLog' = <<Pinged(resp, err)>>
            /\ result' = Errorf("failed to sync " \o noun, 0, <<>>,
                                Errorf("API health check failed", 0, <<>>, err))
            /\ UNCHANGED clientVars
       ELSE /\ pc' = svc
            /\ syncLog' = <<Pinged(resp, NoErr), Fetch(1)>>
            /\ startCall(o, 1)
            /\ UNCHANGED result
    /\ UNCHANGED <<page, totalFetched, lastCall>>
    /\ UNCHANGED cfgVars
    /\ UNCHANGED now
    /\ UNCHANGED ctxDone
    /\ UNCHANGED upserts
    /\ UNCHANGED mainVars
    /\ UNCHANGED dataVars
    /\ UNCHANGED dbVars

\* GetX returned an error
fetchAndStoreFetchFailed(svc, noun) ==
    /\ pc = svc
    /\ callState = "returned"
    /\ ret.err # NoErr
    /\ pc' = "done"
    /\ syncLog' = Append(syncLog, Fetched(1, ret))
    /\ result' = Errorf("failed to sync " \o noun, 0, <<>>,
                        Errorf("failed to fetch " \o noun, 0, <<>>, ret.err))
    /\ UNCHANGED <<page, totalFetched, lastCall>>
    /\ UNCHANGED clientVars
    /\ UNCHANGED cfgVars
    /\ UNCHANGED now
    /\ UNCHANGED ctxDone
    /\ UNCHANGED upserts
    /\ UNCHANGED mainVars
    /\ UNCHANGED dataVars
    /\ UNCHANGED dbVars

fetchAndStoreStoreNoEmptyTest(svc, repo, noun, failAt) ==
    /\ pc = svc
    /\ callState = "returned"
    /\ ret.err = NoErr
    /\ pc' = "done"
    /\ LET up == UpsertBatch(repo, TableOf(repo), ret.value, failAt) IN
       /\ SetTable(repo, up.table)
       /\ syncLog' = syncLog \o <<Fetched(1, ret), Stored(1, Len(ret.value), up.err)>>
       /\ result' = IF up.err # NoErr
                    THEN Errorf("failed to sync " \o noun, 0, <<>>,
                                Errorf("failed to store " \o noun, 0, <<>>, up.err))
                    ELSE NoErr
    /\ UNCHANGED <<page, totalFetched, lastCall>>
    /\ UNCHANGED clientVars
    /\ UNCHANGED cfgVars
    /\ UNCHANGED now
    /\ UNCHANGED ctxDone
    /\ UNCHANGED upserts
    /\ UNCHANGED mainVars
    /\ UNCHANGED dataVars

\* GetX returned a list: an empty one is an error, any other is handed to
\* UpsertBatch; the GetAll for the count log after it only logs its error
fetchAndStoreStore(svc, repo, noun, failAt) ==
    /\ pc = svc
    /\ callState = "returned"
    /\ ret.err = NoErr
    /\ pc' = "done"
    /\ IF Len(ret.value) = 0
       THEN /\ syncLog' = Append(syncLog, Fetched(1, ret))
            /\ result' = Errorf("failed to sync " \o noun, 0, <<>>,
                                <<Frame("no " \o noun \o " received from API", 0, <<>>)>>)
            /\ UNCHANGED dbVars
       ELSE LET up == UpsertBatch(repo, TableOf(repo), ret.value, failAt) IN
            /\ SetTable(repo, up.table)
            /\ syncLog' = syncLog \o <<Fetched(1, ret), Stored(1, Len(ret.value), up.err)>>
            /\ result' = IF up.err # NoErr
                         THEN Errorf("failed to sync " \o noun, 0, <<>>,
                                     Errorf("failed to store " \o noun, 0, <<>>, up.err))
                         ELSE NoErr
    /\ UNCHANGED <<page, totalFetched, lastCall>>
    /\ UNCHANGED clientVars
    /\ UNCHANGED cfgVars
    /\ UNCHANGED now
    /\ UNCHANGED ctxDone
    /\ UNCHANGED upserts
    /\ UNCHANGED mainVars
    /\ UNCHANGED dataVars

SyncAssetPlatformsStart(resp) ==
    fetchAndStoreStart("SyncAssetPlatforms", "GetAssetPlatforms", "asset platforms", resp)
SyncAssetPlatformsFetchFailed ==
    fetchAndStoreFetchFailed("SyncAssetPlatforms", "asset platforms")
SyncAssetPlatformsStore(failAt) ==
    fetchAndStoreStore("SyncAssetPlatforms", "asset_platforms", "asset platforms", failAt)

SyncCoinCategoriesStart(resp) ==
    fetchAndStoreStart("SyncCoinCategories", "GetCoinCategories", "coin categories", resp)
SyncCoinCategoriesFetchFailed ==
    fetchAndStoreFetchFailed("SyncCoinCategories", "coin categories")
SyncCoinCategoriesStore(failAt) ==
    fetchAndStoreStore("SyncCoinCategories", "coin_categories", "coin categories", failAt)

\* SyncExchanges: the GetAll before the fetch, whose error is returned; no health check
SyncExchangesStart(getAllFails) ==
    /\ pc = "idle"
    /\ IF getAllFails
       THEN /\ pc' = "done"
            /\ syncLog' = <<>>
            /\ result' = Errorf("failed to get current exchanges", 0, <<>>,
                                Errorf("failed to get all exchanges", 0, <<>>, StorageErr))
            /\ UNCHANGED clientVars
       ELSE /\ pc' = "SyncExchanges"
            /\ syncLog' = <<Fetch(1)>>
            /\ startCall("GetExchanges", 1)
            /\ UNCHANGED result
    /\ UNCHANGED <<page, totalFetched, lastCall>>
    /\ UNCHANGED cfgVars
    /\ UNCHANGED now
    /\ UNCHANGED ctxDone
    /\ UNCHANGED upserts
    /\ UNCHANGED mainVars
    /\ UNCHANGED dataVars
    /\ UNCHANGED dbVars

\* GetExchanges returned an error
SyncExchangesFetchFailed ==
    /\ pc = "SyncExchanges"
    /\ callState = "returned"
    /\ ret.err # NoErr
    /\ pc' = "done"
    /\ syncLog' = Append(syncLog, Fetched(1, ret))
    /\ result' = Errorf("failed to fetch exchanges", 0, <<>>, ret.err)
    /\ UNCHANGED <<page, totalFetched, lastCall>>
    /\ UNCHANGED clientVars
    /\ UNCHANGED cfgVars
    /\ UNCHANGED now
    /\ UNCHANGED ctxDone
    /\ UNCHANGED upserts
    /\ UNCHANGED mainVars
    /\ UNCHANGED dataVars
    /\ UNCHANGED dbVars

\* GetExchanges returned a list: UpsertBatch (of an empty list too), then the
\* GetAll after it, whose error is returned
SyncExchangesStore(failAt, getAllFails) ==
    /\ pc = "SyncExchanges"
    /\ callState = "returned"
    /\ ret.err = NoErr
    /\ pc' = "done"
    /\ LET up == exchangeUpsertBatch(exchanges, ret.value, failAt) IN
        /\ SetTable("exchanges", up.table)
        /\ syncLog' = syncLog \o <<Fetched(1, ret), Stored(1, Len(ret.value), up.err)>>
        /\ result' = IF up.err # NoErr
                     THEN Errorf("failed to store exchanges", 0, <<>>, up.err)
                     ELSE IF getAllFails
                     THEN Errorf("failed to get updated exchanges", 0, <<>>,
                                 Errorf("failed to get all exchanges", 0, <<>>, StorageErr))
                     ELSE NoErr
    /\ UNCHANGED <<page, totalFetched, lastCall>>
    /\ UNCHANGED clientVars
    /\ UNCHANGED cfgVars
    /\ UNCHANGED now
    /\ UNCHANGED ctxDone
    /\ UNCHANGED upserts
    /\ UNCHANGED mainVars
    /\ UNCHANGED dataVars

\* The command has returned; the next command starts from the stored tables
SyncReturned ==
    /\ pc = "done"
    /\ now + 1 < MaxClock
    /\ now' = now + 1
    /\ pc' = "idle"
    /\ op' = "none"
    /\ callPage' = 0
    /\ attempt' = 0
    /\ lastErr' = NoErr
    /\ callState' = "none"
    /\ ret' = NoRet
    /\ fetched' = <<>>
    /\ callLog' = <<>>
    /\ page' = 0
    /\ totalFetched' = 0
    /\ syncLog' = <<>>
    /\ result' = NoErr
    /\ ctxDone' = FALSE
    /\ UNCHANGED upserts
    /\ UNCHANGED mainVars
    /\ UNCHANGED lastCall
    /\ UNCHANGED cfgVars
    /\ UNCHANGED dbVars
    /\ UNCHANGED dataVars

----------------------------------------------------------------------------
(* coinService.SyncCoinsData *)

Requested(o, c, p) ==
    [ev |-> "request", op |-> o, coin |-> c.coingecko_id, page |-> p, n |-> 0,
     failed |-> FALSE]
Returned(o, c, p, r) ==
    [ev |-> "returned", op |-> o, coin |-> c.coingecko_id, page |-> p, n |-> Len(r.value),
     failed |-> r.err # NoErr]
Upserted(repo, c, p, e) ==
    [ev |-> "upsert", op |-> repo, coin |-> c.coingecko_id, page |-> p, n |-> 0,
     failed |-> e # NoErr]

EligibleAbove(c, min) == c.total_volume # <<>> /\ c.total_volume[1] > min

\* c.TotalVolume != nil && *c.TotalVolume >= minTotalVolume
Eligible(c, min) == c.total_volume # <<>> /\ c.total_volume[1] >= min

\* coinDetailRepository.Upsert: Where(coingecko_id).Assign(detail).FirstOrCreate
coinDetailUpsert(table, detail, fails) ==
    IF fails
    THEN [table |-> table, err |-> Errorf("failed to upsert coin detail", 0, <<>>, StorageErr)]
    ELSE LET d == [detail EXCEPT !.created_at = IF @ = 0 THEN now ELSE @, !.updated_at = now]
             hit == {i \in 1..Len(table) : table[i].coingecko_id = d.coingecko_id}
         IN IF hit = {}
            THEN [table |-> Append(table, [d EXCEPT !.id = Len(table) + 1]), err |-> NoErr]
            ELSE LET i == CHOOSE i \in hit : TRUE IN
                 [table |-> [table EXCEPT ![i] = [d EXCEPT !.id = table[i].id]], err |-> NoErr]

\* coinTickerRepository.Upsert: Where(coin_id, page).Assign(t).FirstOrCreate
coinTickerUpsert(table, t, fails) ==
    IF fails
    THEN [table |-> table, err |-> Errorf("failed to upsert coin ticker", 0, <<>>, StorageErr)]
    ELSE LET d == [t EXCEPT !.created_at = IF @ = 0 THEN now ELSE @, !.updated_at = now]
             hit == {i \in 1..Len(table) : table[i].coin_id = d.coin_id /\ table[i].page = d.page}
         IN IF hit = {}
            THEN [table |-> Append(table, [d EXCEPT !.id = Len(table) + 1]), err |-> NoErr]
            ELSE LET i == CHOOSE i \in hit : TRUE IN
                 [table |-> [table EXCEPT ![i] = [d EXCEPT !.id = table[i].id]], err |-> NoErr]

\* The SyncCoinsData runs that work on the same database at the same time
Runs == {1, 2}
\* a run that is not inside coinTickerRepository.Upsert
NotInUpsert == [at |-> "out", coin_id |-> 0, page |-> 0, hit |-> 0]

\* The SELECT of FirstOrCreate: the row of (coin_id, page) with the lowest id,
\* none when there is no such row
firstMatch(table, coin_id, p) ==
    LET hit == {i \in 1..Len(table) : table[i].coin_id = coin_id /\ table[i].page = p}
    IN IF hit = {} THEN {} ELSE {CHOOSE i \in hit : \A j \in hit : i <= j}

\* Upsert up to the SELECT of FirstOrCreate, which is a statement of its own:
\* the run holds what it found
TickerFind(r, coin_id, p) ==
    /\ pc = "tickers"
    /\ upserts[r].at = "out"
    /\ LET hit == firstMatch(coin_tickers, coin_id, p) IN
        upserts' = [upserts EXCEPT ![r] =
                        [at |-> "found", coin_id |-> coin_id, page |-> p,
                         hit |-> IF hit = {} THEN 0 ELSE coin_tickers[CHOOSE i \in hit : TRUE].id]]
    /\ UNCHANGED <<minTotalVolume, filtered, coinIdx, dbDown, dataLog, coin_details, coin_tickers>>
    /\ UNCHANGED <<pc, result, lastCall, now, ctxDone>>
    /\ UNCHANGED mainVars
    /\ UNCHANGED clientVars
    /\ UNCHANGED cfgVars
    /\ UNCHANGED syncVars
    /\ UNCHANGED dbVars

\* The second statement of FirstOrCreate: the INSERT when the SELECT found no
\* row, else the UPDATE of the row found with the assigned fields
TickerWrite(r) ==
    /\ pc = "tickers"
    /\ upserts[r].at = "found"
    /\ now < MaxClock
    /\ LET u == upserts[r]
           t == [id |-> 0, coin_id |-> u.coin_id, page |-> u.page, tickers |-> r,
                 created_at |-> now, updated_at |-> now]
       IN coin_tickers' =
            IF u.hit = 0
            THEN Append(coin_tickers, [t EXCEPT !.id = Len(coin_tickers) + 1])
            ELSE [i \in 1..Len(coin_tickers) |->
                    IF coin_tickers[i].id = u.hit
                    THEN [t EXCEPT !.id = u.hit, !.created_at = coin_tickers[i].created_at]
                    ELSE coin_tickers[i]]
    /\ upserts' = [upserts EXCEPT ![r] = NotInUpsert]
    /\ UNCHANGED mainVars
    /\ now' = now + 1
    /\ UNCHANGED <<minTotalVolume, filtered, coinIdx, dbDown, dataLog, coin_details>>
    /\ UNCHANGED <<pc, result, lastCall, ctxDone>>
    /\ UNCHANGED clientVars
    /\ UNCHANGED cfgVars
    /\ UNCHANGED syncVars
    /\ UNCHANGED dbVars

\* The deadline of the context of SyncCoinsData (context.WithTimeout, 600 s)
\* elapses.  The context is handed to GetCoinDataByID and GetCoinTickers only.
SyncCoinsDataDeadlineElapses ==
    /\ pc = "SyncCoinsData"
    /\ ~ctxDone
    /\ ctxDone' = TRUE
    /\ UNCHANGED upserts
    /\ UNCHANGED mainVars
    /\ UNCHANGED <<pc, result, lastCall>>
    /\ UNCHANGED clientVars
    /\ UNCHANGED cfgVars
    /\ UNCHANGED now
    /\ UNCHANGED dataVars
    /\ UNCHANGED syncVars
    /\ UNCHANGED dbVars

\* Entry: GetAll, the volume filter, then the first GetCoinDataByID
SyncCoinsDataStart(min, getAllFails) ==
    /\ pc = "idle"
    /\ minTotalVolume' = min
    /\ IF getAllFails
       THEN /\ pc' = "done"
            /\ result' = Errorf("failed to load coins", 0, <<>>,
                                Errorf("failed to get all coins", 0, <<>>, StorageErr))
            /\ UNCHANGED <<filtered, coinIdx, dataLog, page>>
            /\ UNCHANGED clientVars
       ELSE LET f == SelectSeq(coins, LAMBDA c : Eligible(c, min)) IN
            /\ filtered' = f
            /\ IF Len(f) = 0
               THEN /\ pc' = "done"
                    /\ result' = NoErr
                    /\ UNCHANGED <<coinIdx, dataLog, page>>
                    /\ UNCHANGED clientVars
               ELSE /\ pc' = "SyncCoinsData"
                    /\ coinIdx' = 1
                    /\ page' = 0
                    /\ dataLog' = <<Requested("GetCoinDataByID", f[1], 0)>>
                    /\ startCall("GetCoinDataByID", 1)
                    /\ UNCHANGED result
    /\ UNCHANGED <<dbDown, coin_details, coin_tickers, totalFetched, syncLog, lastCall>>
    /\ UNCHANGED cfgVars
    /\ UNCHANGED now
    /\ UNCHANGED ctxDone
    /\ UNCHANGED upserts
    /\ UNCHANGED mainVars
    /\ UNCHANGED dbVars

\* The range loop moves to the next coin, or the pass ends: return nil
nextCoin(log) ==
    IF coinIdx < Len(filtered)
    THEN /\ coinIdx' = coinIdx + 1
         /\ page' = 0
         /\ dataLog' = Append(log, Requested("GetCoinDataByID", filtered[coinIdx + 1], 0))
         /\ startCall("GetCoinDataByID", 1)
         /\ UNCHANGED <<pc, result>>
    ELSE /\ pc' = "done"
         /\ result' = NoErr
         /\ dataLog' = log
         /\ UNCHANGED <<coinIdx, page>>
         /\ UNCHANGED clientVars

SyncCoinsDataDetailFailedAborts ==
    /\ pc = "SyncCoinsData"
    /\ op = "GetCoinDataByID"
    /\ callState = "returned"
    /\ ret.err # NoErr
    /\ pc' = "done"
    /\ result' = ret.err
    /\ dataLog' = Append(dataLog, Returned(op, filtered[coinIdx], 0, ret))
    /\ UNCHANGED <<coinIdx, page>>
    /\ UNCHANGED clientVars
    /\ UNCHANGED <<minTotalVolume, filtered, dbDown, coin_details, coin_tickers>>
    /\ UNCHANGED <<totalFetched, syncLog, lastCall>>
    /\ UNCHANGED cfgVars
    /\ UNCHANGED now
    /\ UNCHANGED ctxDone
    /\ UNCHANGED upserts
    /\ UNCHANGED mainVars
    /\ UNCHANGED dbVars

\* GetCoinDataByID returned an error: continue
SyncCoinsDataDetailFailed ==
    /\ pc = "SyncCoinsData"
    /\ op = "GetCoinDataByID"
    /\ callState = "returned"
    /\ ret.err # NoErr
    /\ nextCoin(Append(dataLog, Returned(op, filtered[coinIdx], 0, ret)))
    /\ UNCHANGED <<minTotalVolume, filtered, dbDown, coin_details, coin_tickers>>
    /\ UNCHANGED <<totalFetched, syncLog, lastCall>>
    /\ UNCHANGED cfgVars
    /\ UNCHANGED now
    /\ UNCHANGED ctxDone
    /\ UNCHANGED upserts
    /\ UNCHANGED mainVars
    /\ UNCHANGED dbVars

\* GetCoinDataByID returned the coin's data: Upsert the detail (an error is only
\* logged), then the first GetCoinTickers
SyncCoinsDataDetail ==
    /\ pc = "SyncCoinsData"
    /\ op = "GetCoinDataByID"
    /\ callState = "returned"
    /\ ret.err = NoErr
    /\ LET c == filtered[coinIdx]
           detail == [id |-> 0, coin_id |-> c.id, coingecko_id |-> c.coingecko_id,
                      created_at |-> 0, updated_at |-> 0]
           up == coinDetailUpsert(coin_details, detail, dbDown)
       IN
        /\ coin_details' = up.table
        /\ page' = 1
        /\ dataLog' = dataLog \o <<Returned(op, c, 0, ret),
                                   Upserted("coin_details", c, 0, up.err),
                                   Requested("GetCoinTickers", c, 1)>>
        /\ startCall("GetCoinTickers", 1)
    /\ UNCHANGED <<pc, result, coinIdx>>
    /\ UNCHANGED <<minTotalVolume, filtered, dbDown, coin_tickers>>
    /\ UNCHANGED <<totalFetched, syncLog, lastCall>>
    /\ UNCHANGED cfgVars
    /\ UNCHANGED now
    /\ UNCHANGED ctxDone
    /\ UNCHANGED upserts
    /\ UNCHANGED mainVars
    /\ UNCHANGED dbVars

\* GetCoinTickers returned an error: break
SyncCoinsDataTickersFailed ==
    /\ pc = "SyncCoinsData"
    /\ op = "GetCoinTickers"
    /\ callState = "returned"
    /\ ret.err # NoErr
    /\ nextCoin(Append(dataLog, Returned(op, filtered[coinIdx], page, ret)))
    /\ UNCHANGED <<minTotalVolume, filtered, dbDown, coin_details, coin_tickers>>
    /\ UNCHANGED <<totalFetched, syncLog, lastCall>>
    /\ UNCHANGED cfgVars
    /\ UNCHANGED now
    /\ UNCHANGED ctxDone
    /\ UNCHANGED upserts
    /\ UNCHANGED mainVars
    /\ UNCHANGED dbVars

lastTickerPageShort(n) == n < ListLen

\* if arr, ok := tickersPayload["tickers"].([]any); !ok || len(arr) == 0 { break }
lastTickerPage(n) == n = 0

\* GetCoinTickers returned a payload: Upsert it (its error is dropped), break if
\* it holds no tickers, else sleep and fetch the next page
SyncCoinsDataTickers ==
    /\ pc = "SyncCoinsData"
    /\ op = "GetCoinTickers"
    /\ callState = "returned"
    /\ ret.err = NoErr
    /\ LET c == filtered[coinIdx]
           t == [id |-> 0, coin_id |-> c.id, page |-> page, tickers |-> Len(ret.value),
                 created_at |-> 0, updated_at |-> 0]
           up == coinTickerUpsert(coin_tickers, t, dbDown)
           log == dataLog \o <<Returned(op, c, page, ret),
                               Upserted("coin_tickers", c, page, up.err)>>
       IN
        /\ coin_tickers' = up.table
        /\ IF lastTickerPage(Len(ret.value))
           THEN nextCoin(log)
           ELSE /\ page' = page + 1
                /\ dataLog' = Append(log, Requested("GetCoinTickers", c, page + 1))
                /\ startCall("GetCoinTickers", page + 1)
                /\ UNCHANGED <<pc, result, coinIdx>>
    /\ UNCHANGED <<minTotalVolume, filtered, dbDown, coin_details>>
    /\ UNCHANGED <<totalFetched, syncLog, lastCall>>
    /\ UNCHANGED cfgVars
    /\ UNCHANGED now
    /\ UNCHANGED ctxDone
    /\ UNCHANGED upserts
    /\ UNCHANGED mainVars
    /\ UNCHANGED dbVars

\* The stored coins a pass starts from: MaxCoins rows, the first with no total
\* volume, the others with the volumes 1, 2, ...
CoinTable ==
    [i \in 1..MaxCoins |->
        [id |-> i, name |-> "n1", total_volume |-> IF i = 1 THEN <<>> ELSE <<i - 1>>,
         created_at |-> 0, updated_at |-> 0, deleted_at |-> <<>>, coingecko_id |-> CoinKey(i)]]

----------------------------------------------------------------------------
(* main *)

\* The flags of the one-shot modes, in the order of main's if statements
Precedence == <<"migrate", "rollback", "status", "sync-platforms", "sync-categories",
                "sync-exchanges", "sync-all">>
Flags == {Precedence[i] : i \in 1..Len(Precedence)}

\* The if statement main enters: that of the first flag set, in the order of
\* the code; "default" when none is, the long-running mode
Branch(fs) ==
    IF fs = {} THEN "default"
    ELSE Precedence[CHOOSE i \in 1..Len(Precedence) :
                        /\ Precedence[i] \in fs
                        /\ \A j \in 1..(i - 1) : Precedence[j] \notin fs]

MigrationBranches == {"migrate", "rollback", "status"}

\* The first call of a sync in a branch
FirstCall(branch) ==
    CASE branch = "sync-platforms" -> "sync-platforms"
      [] branch = "sync-categories" -> "sync-categories"
      [] branch = "sync-exchanges" -> "sync-exchanges"
      [] branch = "sync-all" -> "sync-all/platforms"
      [] OTHER -> "default/platforms"

\* The sync main calls at a call site
SyncAt(site) ==
    CASE site \in {"sync-platforms", "sync-all/platforms", "default/platforms"} -> "SyncAssetPlatforms"
      [] site \in {"sync-categories", "sync-all/categories"} -> "SyncCoinCategories"
      [] site \in {"sync-exchanges", "sync-all/exchanges"} -> "SyncExchanges"
      [] OTHER -> "none"

AfterSkippingCategories(site) ==
    CASE site = "sync-all/platforms" -> "sync-all/exchanges"
      [] site = "sync-all/exchanges" -> "return"
      [] site = "default/platforms" -> "wait"
      [] OTHER -> "return"

\* What follows a call that did not end the process: the next call site, the
\* return of main, or the wait for a signal
After(site) ==
    CASE site = "sync-all/platforms" -> "sync-all/categories"
      [] site = "sync-all/categories" -> "sync-all/exchanges"
      [] site = "sync-all/exchanges" -> "return"
      [] site = "default/platforms" -> "wait"
      [] OTHER -> "return"

ToleratedNowhere(site) == FALSE

\* The call sites where an error is logged with Error ("Don't exit on sync
\* failure, continue running"); everywhere else it is logged with Fatal
Tolerated(site) == site = "default/platforms"

onReturnIgnoringError(site, failed) ==
    IF After(site) = "return" THEN [to |-> "exited", status |-> <<0>>]
    ELSE [to |-> After(site), status |-> <<>>]

\* main after a call has returned.  logrus' Fatal logs and calls os.Exit(1);
\* a return from main ends the process with status 0.
onReturn(site, failed) ==
    IF failed /\ ~Tolerated(site) THEN [to |-> "exited", status |-> <<1>>]
    ELSE IF After(site) = "return" THEN [to |-> "exited", status |-> <<0>>]
    ELSE [to |-> After(site), status |-> <<>>]

SIGINT == 2
SIGTERM == 15

Called(name) == [ev |-> "call", name |-> name, failed |-> FALSE]
Ended(name, failed) == [ev |-> "return", name |-> name, failed |-> failed]
Signalled(sig) == [ev |-> "signal", name |-> IF sig = SIGINT THEN "SIGINT" ELSE "SIGTERM",
                   failed |-> FALSE]

\* main up to its first sync: NewDatabase, whose error is fatal, then the
\* migration command selected, which ends the process, or the call of the first
\* sync of the branch
MainStart(dbFails, commandFails) ==
    /\ mainPc = "start"
    /\ LET branch == Branch(flags) IN
       IF dbFails
       THEN /\ mainPc' = "exited"
            /\ exitStatus' = <<1>>
            /\ UNCHANGED <<mainLog, pc>>
       ELSE IF branch \in MigrationBranches
       THEN /\ mainPc' = "exited"
            /\ exitStatus' = onReturn(branch, commandFails).status
            /\ mainLog' = <<Called(branch), Ended(branch, commandFails)>>
            /\ UNCHANGED pc
       ELSE /\ mainPc' = FirstCall(branch)
            /\ mainLog' = <<Called(SyncAt(FirstCall(branch)))>>
            /\ pc' = "idle"
            /\ UNCHANGED exitStatus
    /\ UNCHANGED flags
    /\ UNCHANGED <<result, lastCall, now, ctxDone, upserts>>
    /\ UNCHANGED clientVars
    /\ UNCHANGED cfgVars
    /\ UNCHANGED syncVars
    /\ UNCHANGED dataVars
    /\ UNCHANGED dbVars

\* The sync main called has returned: Fatal, the next sync, the return of main
\* or the wait for a signal
MainSyncReturned ==
    /\ pc = "done"
    /\ SyncAt(mainPc) # "none"
    /\ LET failed == result # NoErr
           next == onReturn(mainPc, failed)
       IN
        /\ mainPc' = next.to
        /\ exitStatus' = next.status
        /\ IF SyncAt(next.to) # "none"
           THEN /\ mainLog' = mainLog \o <<Ended(SyncAt(mainPc), failed), Called(SyncAt(next.to))>>
                /\ pc' = "idle"
                /\ op' = "none"
                /\ callPage' = 0
                /\ attempt' = 0
                /\ lastErr' = NoErr
                /\ callState' = "none"
                /\ ret' = NoRet
                /\ fetched' = <<>>
                /\ callLog' = <<>>
                /\ syncLog' = <<>>
                /\ result' = NoErr
           ELSE /\ mainLog' = Append(mainLog, Ended(SyncAt(mainPc), failed))
                /\ UNCHANGED <<pc, result, syncLog>>
                /\ UNCHANGED clientVars
    /\ UNCHANGED flags
    /\ UNCHANGED <<page, totalFetched, lastCall, now, ctxDone, upserts>>
    /\ UNCHANGED cfgVars
    /\ UNCHANGED dataVars
    /\ UNCHANGED dbVars

\* SIGINT or SIGTERM is delivered.  Once signal.Notify has registered sigChan,
\* main receives it from the channel and returns; before that the signal has
\* its default disposition and ends the process
Signal(sig) ==
    /\ mainPc \notin {"none", "exited"}
    /\ mainPc' = "exited"
    /\ exitStatus' = IF mainPc = "wait" THEN <<0>> ELSE <<128 + sig>>
    /\ mainLog' = Append(mainLog, Signalled(sig))
    /\ UNCHANGED flags
    /\ UNCHANGED <<pc, result, lastCall, now, ctxDone, upserts>>
    /\ UNCHANGED clientVars
    /\ UNCHANGED cfgVars
    /\ UNCHANGED syncVars
    /\ UNCHANGED dataVars
    /\ UNCHANGED dbVars

----------------------------------------------------------------------------
(* The program *)

\* The configurations: any retry count the environment can give, down to a
\* negative one, any retry delay, a base URL that parses or one that does not
Configured(maxRetry, maxDelay) ==
    /\ retryCount \in (0 - 1)..maxRetry
    /\ retryDelay \in 1..maxDelay
    /\ urlOK \in BOOLEAN

\* main has not been entered
NotInMain == flags = {} /\ mainPc = "none" /\ exitStatus = <<>> /\ mainLog = <<>>

\* No sync and no client call has begun; nothing is stored but, possibly, coins
QuiescentSyncs ==
    /\ op = "none"
    /\ callPage = 0
    /\ attempt = 0
    /\ lastErr = NoErr
    /\ callState = "none"
    /\ ret = NoRet
    /\ fetched = <<>>
    /\ callLog = <<>>
    /\ page = 0
    /\ totalFetched = 0
    /\ syncLog = <<>>
    /\ result = NoErr
    /\ exchanges = <<>>
    /\ coin_categories = <<>>
    /\ asset_platforms = <<>>
    /\ coin_market_data = <<>>
    /\ now = 1
    /\ minTotalVolume = 0
    /\ filtered = <<>>
    /\ coinIdx = 0
    /\ ctxDone = FALSE
    /\ upserts = [r \in Runs |-> NotInUpsert]
    /\ dataLog = <<>>
    /\ coin_details = <<>>
    /\ coin_tickers = <<>>

\* No operation has run
Quiescent == QuiescentSyncs /\ NotInMain

\* The state before any operation has run
Fresh == Quiescent /\ coins = <<>> /\ dbDown = FALSE

Started == pc = "idle" /\ lastCall = NoCall("none") /\ Fresh

\* Spec: one call of any client operation, under any configuration
Init == Configured(MaxRetry, MaxDelay) /\ Started

Next ==
    \/ \E o \in Ops : \E p \in PagesOf(o) : CallClient(o, p)
    \/ ClientStep
    \/ ClientReturned

Spec == Init /\ [][Next]_vars

\* SpecSync: one call of any client operation or one run of SyncCoins
InitSync == Configured(MaxSyncRetry, 1) /\ Started

NextSync ==
    \/ \E o \in Ops : \E p \in PagesOf(o) : CallClient(o, p)
    \/ ClientStep
    \/ ClientReturned
    \/ \E g \in BOOLEAN : SyncCoinsStart(g)
    \/ SyncCoinsFetchFailed
    \/ \E g \in BOOLEAN : SyncCoinsEmptyPage(g)
    \/ \E f \in FailPoints(Len(ret.value)), g \in BOOLEAN : SyncCoinsStore(f, g)

SpecSync == InitSync /\ [][NextSync]_vars

\* SpecDeadline: one run of SyncCoins whose deadline may elapse at any moment,
\* over a database that does not fail
InitDeadline == Configured(MaxSyncRetry, 1) /\ Started

NextDeadline ==
    \/ ClientStep
    \/ SyncCoinsStart(FALSE)
    \/ SyncCoinsFetchFailed
    \/ SyncCoinsEmptyPage(FALSE)
    \/ SyncCoinsStore(0, FALSE)
    \/ DeadlineElapses

SpecDeadline == InitDeadline /\ [][NextDeadline]_vars

\* SpecSyncs: any sequence of the list syncs, one after the other
InitSyncs == Configured(MaxSyncRetry, 1) /\ Started

NextSyncs ==
    \/ ClientStep
    \/ \E resp \in PingResponses : SyncAssetPlatformsStart(resp)
    \/ SyncAssetPlatformsFetchFailed
    \/ \E f \in FailPoints(Len(ret.value)) : SyncAssetPlatformsStore(f)
    \/ \E resp \in PingResponses : SyncCoinCategoriesStart(resp)
    \/ SyncCoinCategoriesFetchFailed
    \/ \E f \in FailPoints(Len(ret.value)) : SyncCoinCategoriesStore(f)
    \/ \E g \in BOOLEAN : SyncExchangesStart(g)
    \/ SyncExchangesFetchFailed
    \/ \E f \in FailPoints(Len(ret.value)), g \in BOOLEAN : SyncExchangesStore(f, g)
    \/ SyncReturned

SpecSyncs == InitSyncs /\ [][NextSyncs]_vars

\* SpecData: one pass of SyncCoinsData over a stored coins table
InitData ==
    /\ retryCount = 0 /\ retryDelay = 1 /\ urlOK = TRUE
    /\ pc = "idle"
    /\ lastCall = NoCall("none")
    /\ Quiescent
    /\ coins = CoinTable
    /\ dbDown \in BOOLEAN

NextData ==
    \/ ClientStep
    \/ \E min \in 1..MaxCoins, g \in BOOLEAN : SyncCoinsDataStart(min, g)
    \/ SyncCoinsDataDetailFailed
    \/ SyncCoinsDataDetail
    \/ SyncCoinsDataTickersFailed
    \/ SyncCoinsDataTickers

SpecData == InitData /\ [][NextData]_vars

\* SpecTickers: the ticker upserts of two SyncCoinsData runs on one database,
\* their statements interleaved in any order
InitTickers ==
    /\ retryCount = 0 /\ retryDelay = 1 /\ urlOK = TRUE
    /\ pc = "tickers"
    /\ lastCall = NoCall("none")
    /\ Fresh

NextTickers ==
    \/ \E r \in Runs, c \in 1..MaxCoins, p \in 1..(MaxTickerPages + 1) : TickerFind(r, c, p)
    \/ \E r \in Runs : TickerWrite(r)

SpecTickers == InitTickers /\ [][NextTickers]_vars

\* SpecLive: one run of a sync, SyncCoins or SyncCoinsData against an upstream that
\* may have a full page for every page number, over a database that does
\* not fail (SyncCoinsData with a client that does not retry).  The code is sequential and, by assumption, every HTTP attempt and
\* every storage call returns: the run takes its next step (weak fairness of
\* LiveSteps).  The timer of context.WithTimeout fires (weak fairness of the
\* two deadline actions).
InitLive ==
    /\ Configured(MaxSyncRetry, 1)
    /\ pc = "idle"
    /\ lastCall = NoCall("none")
    /\ Quiescent
    /\ dbDown = FALSE
    /\ \/ coins = <<>>
       \/ coins = CoinTable /\ retryCount <= 0

LiveSteps ==
    \/ ClientStepEndless
    \/ coins = <<>> /\ SyncCoinsStart(FALSE)
    \/ SyncCoinsFetchFailed
    \/ SyncCoinsEmptyPage(FALSE)
    \/ SyncCoinsStore(0, FALSE)
    \/ coins # <<>> /\ SyncCoinsDataStart(1, FALSE)
    \/ SyncCoinsDataDetailFailed
    \/ SyncCoinsDataDetail
    \/ SyncCoinsDataTickersFailed
    \/ SyncCoinsDataTickers
    \/ coins = <<>> /\ \E resp \in PingResponses : SyncAssetPlatformsStart(resp)
    \/ SyncAssetPlatformsFetchFailed
    \/ SyncAssetPlatformsStore(0)
    \/ coins = <<>> /\ \E resp \in PingResponses : SyncCoinCategoriesStart(resp)
    \/ SyncCoinCategoriesFetchFailed
    \/ SyncCoinCategoriesStore(0)
    \/ coins = <<>> /\ SyncExchangesStart(FALSE)
    \/ SyncExchangesFetchFailed
    \/ SyncExchangesStore(0, FALSE)

NextLive ==
    \/ LiveSteps
    \/ DeadlineElapses
    \/ SyncCoinsDataDeadlineElapses

SpecLive ==
    /\ InitLive /\ [][NextLive]_vars
    /\ WF_vars(LiveSteps)
    /\ WF_vars(DeadlineElapses)
    /\ WF_vars(SyncCoinsDataDeadlineElapses)

\* SpecMain: one run of the process, with up to MaxFlags flags set
InitMain ==
    /\ Configured(MaxSyncRetry, 1)
    /\ urlOK = TRUE
    /\ pc = "main"
    /\ lastCall = NoCall("none")
    /\ QuiescentSyncs
    /\ coins = <<>>
    /\ dbDown = FALSE
    /\ flags \in {fs \in SUBSET Flags : Cardinality(fs) <= MaxFlags}
    /\ mainPc = "start"
    /\ exitStatus = <<>>
    /\ mainLog = <<>>

\* main is in the call of sync
InCall(sync) == SyncAt(mainPc) = sync

\* The syncs run when main is at a call of theirs, and while the process lives
NextMain ==
    \/ \E dbFails, commandFails \in BOOLEAN : MainStart(dbFails, commandFails)
    \/ SyncAt(mainPc) # "none" /\ ClientStep
    \/ InCall("SyncAssetPlatforms") /\ \E resp \in PingResponses : SyncAssetPlatformsStart(resp)
    \/ InCall("SyncAssetPlatforms") /\ SyncAssetPlatformsFetchFailed
    \/ InCall("SyncAssetPlatforms")
        /\ \E f \in FailPoints(Len(ret.value)) : SyncAssetPlatformsStore(f)
    \/ InCall("SyncCoinCategories") /\ \E resp \in PingResponses : SyncCoinCategoriesStart(resp)
    \/ InCall("SyncCoinCategories") /\ SyncCoinCategoriesFetchFailed
    \/ InCall("SyncCoinCategories")
        /\ \E f \in FailPoints(Len(ret.value)) : SyncCoinCategoriesStore(f)
    \/ InCall("SyncExchanges") /\ \E g \in BOOLEAN : SyncExchangesStart(g)
    \/ InCall("SyncExchanges") /\ SyncExchangesFetchFailed
    \/ InCall("SyncExchanges")
        /\ \E f \in FailPoints(Len(ret.value)), g \in BOOLEAN : SyncExchangesStore(f, g)
    \/ MainSyncReturned
    \/ \E sig \in {SIGINT, SIGTERM} : Signal(sig)

SpecMain == InitMain /\ [][NextMain]_vars

InitRepo ==
    /\ retryCount = 0 /\ retryDelay = 1 /\ urlOK = TRUE
    /\ pc = "repo"
    /\ lastCall \in {NoCall(r) : r \in Repos}
    /\ Fresh

NextRepo ==
    \/ /\ pc = "repo"
       /\ \E batch \in Batches(lastCall.repo) : \E failAt \in 0..(Len(batch) + 1) :
            RepoUpsertBatch(lastCall.repo, batch, failAt)
    \/ \E id \in 1..MaxBatch : \E fails \in BOOLEAN : RepoDelete(id, fails)
    \/ RepoReturned

SpecRepo == InitRepo /\ [][NextRepo]_vars

----------------------------------------------------------------------------
(* Properties of the client's retry loops *)

\* The positions of the HTTP attempts in the log of the call
AttemptIdx == {i \in 1..Len(callLog) : callLog[i].ev = "attempt"}
\* The number of the attempt at position i: 1 for the first
AttemptNo(i) == Cardinality({j \in AttemptIdx : j <= i})
LastResp == callLog[Len(callLog)].resp

\* A 200 answer with a body that parses
Succeeded(resp) == resp.kind = "http" /\ resp.status = StatusOK /\ resp.body = "wellformed"
\* A 200 answer with a body that json.Unmarshal rejects
Undecodable(resp) == resp.kind = "http" /\ resp.status = StatusOK /\ resp.body = "malformed"

\* The call slept retryDelay after the attempt at position i and attempted again
RetriedAfter(i) ==
    /\ i + 2 <= Len(callLog)
    /\ callLog[i + 1] = Slept(retryDelay)
    /\ callLog[i + 2].ev = "attempt"

\* The attempt at position i was treated as a failure with error e: retried when
\* the retry budget allows, and otherwise e, wrapped, is what the call returned
FailedAttempt(i, e) ==
    IF AttemptNo(i) <= retryCount
    THEN RetriedAfter(i)
    ELSE /\ i = Len(callLog)
         /\ ret = [value |-> <<>>, err |-> Errorf(failedTo(op), 0, <<>>, e)]

TransportFailuresThenSuccess ==
    /\ callState = "returned"
    /\ Cardinality(AttemptIdx) >= 2
    /\ Len(callLog) \in AttemptIdx
    /\ \A i \in AttemptIdx :
        IF i = Len(callLog) THEN Succeeded(callLog[i].resp)
        ELSE callLog[i].resp = TransportFailure

\* C2: when attempts 1..k fail with a transport error and attempt k+1 succeeds,
\* the call returns the records of attempt k+1 and no error.
SuccessAfterTransportFailures ==
    TransportFailuresThenSuccess =>
        /\ ret.err = NoErr
        /\ ret.value = fetch(op, TRUE, callPage, LastResp).value
        /\ op # "GetCoinMarketData" => Len(ret.value) = LastResp.size

SuccessAfterTransportFailuresWitness ==
    /\ TransportFailuresThenSuccess
    /\ op = "GetCoinDataByID"
    /\ Cardinality(AttemptIdx) = 3
    /\ Len(ret.value) = ListLen

\* The call used its whole retry budget and every attempt failed
AllAttemptsFailed ==
    /\ callState = "returned"
    /\ retryCount >= 0
    /\ Cardinality(AttemptIdx) = retryCount + 1
    /\ \A i \in AttemptIdx : attemptErr(TRUE, callLog[i].resp) # NoErr

\* The run of SyncCoins ended because GetCoins returned an error
SyncFetchFailed ==
    /\ pc = "done"
    /\ syncLog # <<>>
    /\ syncLog[Len(syncLog)].ev = "fetched"
    /\ syncLog[Len(syncLog)].err # NoErr

\* C3: when all retryCount+1 attempts of a fetch call fail, the call returns no
\* records and the error of the final attempt wrapped in the operation's message;
\* when this ends a run of SyncCoins, the error of the run carries the number of
\* the page that was being fetched and wraps the error of the call.
ExhaustedRetriesError ==
    /\ AllAttemptsFailed =>
        /\ ret.value = <<>>
        /\ ret.err = Errorf(failedTo(op), 0, <<>>, attemptErr(TRUE, LastResp))
    /\ SyncFetchFailed =>
        /\ syncLog[Len(syncLog) - 1] = Fetch(page)
        /\ Head(result).msg = "failed to fetch coins page"
        /\ Head(result).num = page
        /\ Tail(result) = ret.err

ExhaustedRetriesErrorWitness ==
    /\ SyncFetchFailed
    /\ AllAttemptsFailed
    /\ page = 2
    /\ Cardinality(AttemptIdx) = 2
    /\ callLog[1].resp = TransportFailure
    /\ LastResp.status = 500

UnmarshalErr == Errorf("failed to unmarshal response", 0, <<>>, JsonErr)

\* C4 as stated: a response whose body cannot be deserialized is not retried; the
\* call returns the deserialization error after that single attempt, with no
\* sleep and no further attempt.
UndecodableNotRetried ==
    \A i \in AttemptIdx :
        Undecodable(callLog[i].resp) =>
            /\ i = Len(callLog)
            /\ callState = "returned" => ret.err # NoErr /\ UnmarshalErr = Tail(ret.err)

\* C4, amended: a response whose body cannot be deserialized is a failed attempt
\* like any other.  While fewer than retryCount+1 attempts have been made the call
\* sleeps retryDelay and attempts again; the deserialization error is returned,
\* wrapped in the operation's message, only when it is the error of the last of
\* the retryCount+1 attempts.
UndecodableRetried ==
    callState = "returned" =>
        \A i \in AttemptIdx :
            Undecodable(callLog[i].resp) => FailedAttempt(i, UnmarshalErr)

UndecodableRetriedWitness ==
    /\ callState = "returned"
    /\ op = "GetCoins"
    /\ Cardinality(AttemptIdx) = 2
    /\ Undecodable(callLog[1].resp)
    /\ Succeeded(LastResp)
    /\ Len(ret.value) = perPage

\* C5 as stated: the status check rejects exactly the non-2xx statuses; every
\* non-2xx response is a failed attempt that is retried, every response with a
\* 2xx status and a well-formed body is returned as a success.
RejectsExactlyNon2xx ==
    callState = "returned" =>
        \A i \in AttemptIdx :
            LET resp == callLog[i].resp IN
            resp.kind = "http" =>
                IF resp.status \notin 200..299
                THEN FailedAttempt(i, <<Frame("API request failed with status", resp.status, <<>>)>>)
                ELSE resp.body = "wellformed" => i = Len(callLog) /\ ret.err = NoErr

\* C5, amended: the status check rejects exactly the statuses other than 200;
\* every response with another status, 2xx or not, is a failed attempt that is
\* retried, and every response with status 200 and a well-formed body is returned
\* as a success.
RejectsExactlyNon200 ==
    callState = "returned" =>
        \A i \in AttemptIdx :
            LET resp == callLog[i].resp IN
            resp.kind = "http" =>
                IF resp.status # 200
                THEN FailedAttempt(i, <<Frame("API request failed with status", resp.status, <<>>)>>)
                ELSE resp.body = "wellformed" =>
                        /\ i = Len(callLog)
                        /\ ret = [value |-> fetch(op, TRUE, callPage, resp).value, err |-> NoErr]

RejectsExactlyNon200Witness ==
    /\ callState = "returned"
    /\ op = "GetCoinTickers"
    /\ Cardinality(AttemptIdx) = 3
    /\ callLog[1].resp.status = 201 /\ callLog[1].resp.body = "wellformed"
    /\ callLog[3].resp.status = 500
    /\ Succeeded(LastResp)
    /\ ret.err = NoErr

----------------------------------------------------------------------------
(* Properties of SyncCoins *)

\* The positions of the page requests and of the UpsertBatch calls in the log
FetchIdx == {i \in 1..Len(syncLog) : syncLog[i].ev = "fetch"}
StoreIdx == {i \in 1..Len(syncLog) : syncLog[i].ev = "store"}
FetchedIdx == {i \in 1..Len(syncLog) : syncLog[i].ev = "fetched"}

\* C6: SyncCoins requests page n+1 only if page n returned exactly 250 records;
\* after a page with zero records or with fewer than 250 records no page request
\* follows in that run.
NextPageOnlyAfterFullPage ==
    /\ \A i \in FetchIdx :
        syncLog[i].page > 1 =>
            \E j \in FetchedIdx :
                /\ j < i
                /\ syncLog[j].page = syncLog[i].page - 1
                /\ syncLog[j].err = NoErr
                /\ syncLog[j].n = 250
    /\ \A j \in FetchedIdx :
        syncLog[j].err = NoErr /\ syncLog[j].n < 250 =>
            /\ \A i \in FetchIdx : i < j
            /\ pc = "done"
            /\ callState = "returned"

NextPageOnlyAfterFullPageWitness ==
    /\ pc = "done"
    /\ Cardinality(FetchIdx) = 2
    /\ \E j \in FetchedIdx : syncLog[j].page = 2 /\ syncLog[j].err = NoErr /\ syncLog[j].n = ShortPage
    /\ \E j \in FetchedIdx : syncLog[j].page = 1 /\ syncLog[j].n = 250

\* The result of the last GetCoins call of the run
LastFetched == syncLog[CHOOSE j \in FetchedIdx : \A k \in FetchedIdx : k <= j]

\* The run of SyncCoins ended without error on a page that was short, not empty
EndedOnShortPage ==
    /\ pc = "done"
    /\ result = NoErr
    /\ FetchedIdx # {}
    /\ LastFetched.n \in 1..249

\* C7: in a run of SyncCoins that ends without error after pages 1..m-1 of 250
\* records and a page m of r records, 0 < r < 250: exactly m page requests are
\* issued, in the order 1..m; each page is handed to UpsertBatch before the next
\* page is requested; the records handed to the store, and stored, total
\* 250*(m-1)+r.
PagesFetchedAndStoredInOrder ==
    EndedOnShortPage =>
        LET m == Cardinality(FetchIdx)
            r == LastFetched.n
        IN
        /\ m = page
        /\ \A i \in FetchIdx : syncLog[i].page = Cardinality({j \in FetchIdx : j <= i})
        /\ \A i \in FetchIdx :
            syncLog[i].page > 1 =>
                \E j \in StoreIdx : j < i /\ syncLog[j] = Stored(syncLog[i].page - 1, 250, NoErr)
        /\ Cardinality(StoreIdx) = m
        /\ \A j \in StoreIdx : syncLog[j].n = IF syncLog[j].page = m THEN r ELSE 250
        /\ \A j, k \in StoreIdx : syncLog[j].page = syncLog[k].page => j = k
        /\ totalFetched = 250 * (m - 1) + r
        /\ Len(coins) = 250 * (m - 1) + r

PagesFetchedAndStoredInOrderWitness ==
    /\ EndedOnShortPage
    /\ Cardinality(FetchIdx) = 2
    /\ LastFetched.n = 80
    /\ totalFetched = 330
    /\ Len(coins) = 330

\* C8: when the fetch of page n fails, SyncCoins returns an error that names page
\* n, issues no further request, and the rows of pages 1..n-1 are still in the
\* table.
FetchFailureKeepsStoredPages ==
    SyncFetchFailed =>
        /\ Head(result).msg = "failed to fetch coins page"
        /\ Head(result).num = syncLog[Len(syncLog)].page
        /\ \A i \in FetchIdx : i < Len(syncLog) /\ syncLog[i].page <= syncLog[Len(syncLog)].page
        /\ callState = "returned"
        /\ Len(coins) = 250 * (syncLog[Len(syncLog)].page - 1)
        /\ \A k \in 1..Len(coins) : coins[k].coingecko_id = CoinKey(k) /\ coins[k].deleted_at = <<>>

FetchFailureKeepsStoredPagesWitness ==
    /\ SyncFetchFailed
    /\ Head(result).num = 3
    /\ Len(coins) = 500

----------------------------------------------------------------------------
(* Properties of the repositories *)

\* The records of a batch for which UpsertBatch executes a statement
Executed(repo, batch) ==
    CASE repo = "asset_platforms" -> batch
      [] repo = "coin_market_data" -> SelectSeq(batch, ValidMarketData)
      [] OTHER -> SelectSeq(batch, NonEmptyKey)

\* C9: for every entity's UpsertBatch, when the upsert of a record of the batch
\* fails, UpsertBatch returns an error and every table is as it was before the
\* call: no row inserted or updated by an earlier record of the batch is visible.
BatchIsAtomic ==
    [][pc' = "repoReturned" =>
        /\ lastCall'.failAt \in 1..Len(Executed(lastCall'.repo, lastCall'.batch)) =>
                lastCall'.err # NoErr
        /\ lastCall'.err # NoErr => dbVars' = dbVars]_vars

\* The second record of a batch failed after the first had inserted a new row
BatchIsAtomicWitness ==
    /\ pc = "repoReturned"
    /\ lastCall.repo = "exchanges"
    /\ Len(lastCall.batch) = 2
    /\ lastCall.batch[1].coingecko_id = "b"
    /\ lastCall.batch[2].coingecko_id = "a"
    /\ lastCall.failAt = 2
    /\ lastCall.err # NoErr
    /\ Len(exchanges) = 1
    /\ exchanges[1].coingecko_id = "a"

NaturalKey(repo, r) == IF repo = "asset_platforms" THEN r.id ELSE r.coingecko_id
KeyedRepos == {"asset_platforms", "coin_categories", "exchanges", "coins"}

\* C10: for asset platforms, coin categories, exchanges and coins, UpsertBatch on
\* a batch that contains records with an empty natural key (the database not
\* failing) returns success, has upserted every record with a non-empty key, and
\* has written none of the records with an empty key: no table ever holds a row
\* with an empty natural key.
EmptyKeysExcluded ==
    /\ \A repo \in KeyedRepos :
        \A i \in 1..Len(TableOf(repo)) : NaturalKey(repo, TableOf(repo)[i]) # ""
    /\ \A repo \in KeyedRepos :
        LET batch == lastCall.batch IN
        (/\ pc = "repoReturned"
         /\ lastCall.repo = repo
         /\ lastCall.failAt = 0
         /\ \E i \in 1..Len(batch) : NaturalKey(repo, batch[i]) = "")
        => /\ lastCall.err = NoErr
           /\ \A i \in 1..Len(batch) :
                NaturalKey(repo, batch[i]) # "" =>
                    \E k \in 1..Len(TableOf(repo)) :
                        NaturalKey(repo, TableOf(repo)[k]) = NaturalKey(repo, batch[i])

\* The fields of a record that an upsert of an existing key overwrites
MutableFields(repo, r) ==
    CASE repo = "coins" -> <<r.name, r.total_volume>>
      [] repo = "coin_market_data" -> <<r.price, r.volume_24h>>
      [] OTHER -> <<r.name>>

\* C11: upserting a natural key that is already stored, by an earlier batch or
\* by an earlier record of the same batch, never creates a second row: no table
\* holds two rows of one key, and after a successful UpsertBatch the one row of
\* each key of the batch has the mutable fields of the last record of that key.
UpsertIsIdempotent ==
    /\ \A repo \in Repos :
        \A i, j \in 1..Len(TableOf(repo)) :
            rowKey(repo, TableOf(repo)[i]) = rowKey(repo, TableOf(repo)[j]) => i = j
    /\ (pc = "repoReturned" /\ lastCall.err = NoErr) =>
        LET repo == lastCall.repo
            done == Executed(repo, lastCall.batch)
            t == TableOf(repo)
        IN \A i \in 1..Len(done) :
            (\A j \in (i + 1)..Len(done) : rowKey(repo, done[j]) # rowKey(repo, done[i])) =>
                /\ Cardinality(Conflicts(repo, t, done[i])) = 1
                /\ MutableFields(repo, t[IndexOf(repo, t, done[i])]) = MutableFields(repo, done[i])

\* A batch upserted key "a" twice, with different names, into a table that holds
\* another row as well
UpsertIsIdempotentWitness ==
    /\ pc = "repoReturned"
    /\ lastCall.repo = "coins"
    /\ lastCall.err = NoErr
    /\ Len(lastCall.batch) = 2
    /\ lastCall.batch[1].coingecko_id = "a" /\ lastCall.batch[1].name = "n1"
    /\ lastCall.batch[2].coingecko_id = "a" /\ lastCall.batch[2].name = "n2"
    /\ Len(coins) = 2
    /\ coins[2].coingecko_id = "a" /\ coins[2].name = "n2"

\* C12: UpsertBatch called with an empty input returns success without opening
\* a transaction or issuing any storage call, and leaves every table unchanged.
EmptyBatchIsNoOp ==
    [][(pc' = "repoReturned" /\ lastCall'.op = "UpsertBatch" /\ lastCall'.batch = <<>>) =>
        /\ lastCall'.err = NoErr
        /\ lastCall'.txs = 0
        /\ dbVars' = dbVars]_vars

\* An empty batch was handed to a repository whose table has rows, at a moment
\* when the database would have failed a commit
EmptyBatchIsNoOpWitness ==
    /\ pc = "repoReturned"
    /\ lastCall.op = "UpsertBatch"
    /\ lastCall.batch = <<>>
    /\ lastCall.failAt = 1
    /\ lastCall.repo = "asset_platforms"
    /\ Len(asset_platforms) = 2

\* C13: every batch upsert that hits an existing natural key refreshes the update
\* timestamp of the row: after a successful UpsertBatch of records built from the
\* API, updated_at of each row that existed before and was hit by a record of the
\* batch is the time of that call, and is not earlier than the value it had.
UpsertRefreshesUpdatedAt ==
    [][(pc' = "repoReturned" /\ lastCall'.err = NoErr) =>
        LET repo == lastCall.repo
            done == Executed(repo, lastCall'.batch)
            old == TableOf(repo)
            new == TableOf(repo)'
        IN \A i \in 1..Len(done) :
            HasKey(repo, old, done[i]) =>
                /\ new[IndexOf(repo, new, done[i])].updated_at = lastCall'.at
                /\ new[IndexOf(repo, new, done[i])].updated_at
                    >= old[IndexOf(repo, old, done[i])].updated_at]_vars

----------------------------------------------------------------------------
(* Properties of the syncs *)

KeysOf(repo) == {rowKey(repo, TableOf(repo)[i]) : i \in 1..Len(TableOf(repo))}

\* The sync in progress or just ended, its repository and the index of an event
RepoOfSync ==
    CASE op = "GetAssetPlatforms" -> "asset_platforms"
      [] op = "GetCoinCategories" -> "coin_categories"
      [] op = "GetExchanges" -> "exchanges"
      [] OTHER -> "coins"
EventIdx(ev) == {i \in 1..Len(syncLog) : syncLog[i].ev = ev}

----------------------------------------------------------------------------
(* Properties of SyncCoinsData *)

DataIdx(ev, o) == {i \in 1..Len(dataLog) : dataLog[i].ev = ev /\ dataLog[i].op = o}
RequestedCoins(o) == {dataLog[i].coin : i \in DataIdx("request", o)}
StoredCoins == {coins[i] : i \in 1..Len(coins)}
PassEnded == pc = "done" /\ result = NoErr
DetailFetched(k) ==
    \E i \in DataIdx("returned", "GetCoinDataByID") :
        dataLog[i].coin = k /\ ~dataLog[i].failed

TickerRequests == DataIdx("request", "GetCoinTickers")
TickerPages == DataIdx("returned", "GetCoinTickers")
\* the request of the next ticker page of the same coin that follows event i
NextPageRequested(i) ==
    \E j \in TickerRequests :
        j > i /\ dataLog[j].coin = dataLog[i].coin /\ dataLog[j].page = dataLog[i].page + 1

\* C16 as stated: the ticker pagination of a coin stops on a page with zero
\* tickers and on a page with fewer tickers than a full page: no further page of
\* that coin is requested after either.
TickerPaginationStopsOnShortPage ==
    \A i \in TickerPages :
        (~dataLog[i].failed /\ dataLog[i].n < ListLen) => ~NextPageRequested(i)

\* C16: the ticker pagination of a coin stops on a page with zero tickers, and on
\* a failed fetch: no further page of that coin is requested after either; after
\* every page with tickers, short or full, the next page is requested at once.
TickerPaginationStopsOnEmptyPage ==
    \A i \in TickerPages :
        /\ (dataLog[i].failed \/ dataLog[i].n = 0) =>
            \A j \in TickerRequests : j > i => dataLog[j].coin # dataLog[i].coin
        /\ (~dataLog[i].failed /\ dataLog[i].n > 0) =>
            /\ i + 2 \in TickerRequests
            /\ dataLog[i + 2].coin = dataLog[i].coin
            /\ dataLog[i + 2].page = dataLog[i].page + 1

\* a short ticker page was followed by the request of the next page, which
\* came back empty and ended the pagination of that coin
TickerPaginationStopsOnEmptyPageWitness ==
    /\ PassEnded
    /\ \E i \in TickerPages :
        /\ ~dataLog[i].failed /\ dataLog[i].n > 0 /\ dataLog[i].n < ListLen
        /\ NextPageRequested(i)
        /\ \E j \in TickerPages :
            /\ j > i /\ dataLog[j].coin = dataLog[i].coin
            /\ ~dataLog[j].failed /\ dataLog[j].n = 0

FailedFetches == {i \in 1..Len(dataLog) : dataLog[i].ev = "returned" /\ dataLog[i].failed}
PositionOf(k) == CHOOSE i \in 1..Len(filtered) : filtered[i].coingecko_id = k

\* C17: once SyncCoinsData has loaded the coins, failed fetches of a coin's detail
\* or of a ticker page do not end the pass: it goes on until the detail of every
\* eligible coin has been requested, those after a failure too, and then returns
\* success.
FetchFailuresDoNotAbort ==
    dataLog # <<>> =>
        \/ pc = "SyncCoinsData"
        \/ /\ pc = "done"
           /\ result = NoErr
           /\ \A i \in 1..Len(filtered) :
                filtered[i].coingecko_id \in RequestedCoins("GetCoinDataByID")

\* a pass has ended with success in which a detail fetch and a ticker fetch
\* failed, and the coin after the one with the failed ticker fetch was processed
FetchFailuresDoNotAbortWitness ==
    /\ PassEnded
    /\ \E i, j \in FailedFetches :
        /\ dataLog[i].op = "GetCoinDataByID"
        /\ dataLog[j].op = "GetCoinTickers"
        /\ \E m \in DataIdx("returned", "GetCoinDataByID") :
            /\ m > j
            /\ PositionOf(dataLog[m].coin) > PositionOf(dataLog[j].coin)

\* C18: a sync in which a write to the store failed returns an error: when a
\* sync has ended and one of its UpsertBatch or Upsert calls had failed, its
\* result is an error.
StorageErrorsSurfaced ==
    (/\ pc = "done"
     /\ \/ \E i \in EventIdx("store") : syncLog[i].err # NoErr
        \/ \E i \in 1..Len(dataLog) : dataLog[i].ev = "upsert" /\ dataLog[i].failed)
    => result # NoErr

----------------------------------------------------------------------------
(* Properties of the health check *)

HealthChecked == {"SyncAssetPlatforms", "SyncCoinCategories"}
PingFailed(log) == log # <<>> /\ log[1].ev = "ping" /\ log[1].err # NoErr

\* C19: the health check is one GET of /ping that succeeds only on status 200.
\* SyncAssetPlatforms and SyncCoinCategories run it first; when it fails they
\* return an error at once: no list request is made and no table changes.
HealthCheckFirst ==
    [][/\ \A i \in 1..Len(syncLog') :
            syncLog'[i].ev = "ping" =>
                /\ i = 1
                /\ syncLog'[i].err = NoErr <=> (urlOK /\ syncLog'[i].n = StatusOK)
       /\ pc' \in HealthChecked =>
            syncLog'[1].ev = "ping" /\ syncLog'[1].err = NoErr
       /\ PingFailed(syncLog') =>
            /\ pc' = "done"
            /\ result' # NoErr
            /\ Len(syncLog') = 1
            /\ callLog' = <<>>
            /\ UNCHANGED dbVars]_vars

\* a sync of a later run, with rows stored, has ended on a health check that was
\* answered with a 2xx status other than 200
HealthCheckFirstWitness ==
    /\ pc = "done"
    /\ PingFailed(syncLog)
    /\ syncLog[1].n > StatusOK /\ syncLog[1].n < 300
    /\ result # NoErr
    /\ asset_platforms # <<>>

----------------------------------------------------------------------------
(* Properties of the deadline *)

DeadlineIdx == EventIdx("deadline")
\* page p had not been fetched when the deadline of event d elapsed
LaterPage(d, p) == p > syncLog[d].page \/ (p = syncLog[d].page /\ syncLog[d].n = 0)
NoLaterPage(d) ==
    \A i \in 1..Len(syncLog) :
        /\ (syncLog[i].ev = "fetched" /\ LaterPage(d, syncLog[i].page)) => syncLog[i].err # NoErr
        /\ syncLog[i].ev = "store" => ~LaterPage(d, syncLog[i].page)
\* the rows of every page stored with success are in the table
StoredPagesCommitted ==
    \A i \in StoreIdx :
        syncLog[i].err = NoErr =>
            LET first == (syncLog[i].page - 1) * perPage + 1
                last == (syncLog[i].page - 1) * perPage + syncLog[i].n
            IN /\ Len(coins) >= last
               /\ coins[first].coingecko_id = CoinKey(first)
               /\ coins[last].coingecko_id = CoinKey(last)
\* the page that had been fetched when the deadline elapsed was the last one
FetchedLastPageBefore(d) ==
    /\ syncLog[d].n = 1
    /\ \E i \in FetchedIdx :
        /\ syncLog[i].page = syncLog[d].page
        /\ syncLog[i].err = NoErr
        /\ shortPage(syncLog[i].n)

\* C20 as stated: once the deadline has elapsed during the pagination of
\* SyncCoins, no later page is fetched with success or stored, the sync ends with
\* an error, and the pages stored remain in the table.
DeadlineEndsSyncWithError ==
    \A d \in DeadlineIdx :
        /\ NoLaterPage(d)
        /\ StoredPagesCommitted
        /\ pc = "done" => result # NoErr

\* with a negative retry count GetCoins makes no request and returns no coins
\* and no error, after the deadline as before it
NoRequestMade(i) == retryCount < 0 /\ syncLog[i].n = 0

\* C20: once the deadline has elapsed during the pagination of SyncCoins, no
\* page that was not yet fetched is stored, and none is fetched with success
\* (but for the empty result of a client that makes no request); the pages stored
\* remain in the table; the sync ends with an error unless the last page had been
\* fetched before the deadline elapsed (that page is still stored and the sync
\* returns success) or the client makes no request.
DeadlineStopsLaterPages ==
    \A d \in DeadlineIdx :
        /\ \A i \in 1..Len(syncLog) :
            /\ (syncLog[i].ev = "fetched" /\ LaterPage(d, syncLog[i].page))
                    => (syncLog[i].err # NoErr \/ NoRequestMade(i))
            /\ syncLog[i].ev = "store" => ~LaterPage(d, syncLog[i].page)
        /\ StoredPagesCommitted
        /\ pc = "done" => (result = NoErr <=> (FetchedLastPageBefore(d) \/ retryCount < 0))

\* the deadline elapsed while page 2 was being fetched: the sync ended with the
\* error of that fetch and page 1 is in the table
DeadlineStopsLaterPagesWitness ==
    /\ pc = "done"
    /\ retryCount > 0
    /\ \E d \in DeadlineIdx : syncLog[d].page = 2 /\ syncLog[d].n = 0
    /\ result # NoErr
    /\ Head(result).msg = "failed to fetch coins page"
    /\ Len(coins) = perPage

\* ---------------------------------------------------------------------------
\* Properties of the retry delay
\* ---------------------------------------------------------------------------

SleepIdx == {i \in 1..Len(callLog) : callLog[i].ev = "sleep"}
\* the wait at position j is the one that follows the wait at position i
NextSleep(i, j) == i < j /\ ~\E k \in SleepIdx : i < k /\ k < j

\* C24: API calls are retried with exponential backoff: the wait before a retry
\* is longer than the wait before the retry that preceded it.
ExponentialBackoff ==
    \A i, j \in SleepIdx : NextSleep(i, j) => callLog[j].d > callLog[i].d

\* C27: for every retry count, negative ones included, a list fetch returns
\* success only if an HTTP attempt was issued and answered with status 200 and
\* a body that parses.
SuccessNeedsAnsweredAttempt ==
    (callState = "returned" /\ op \in ListOps /\ ret.err = NoErr)
        => \E i \in AttemptIdx : Succeeded(callLog[i].resp)

\* ---------------------------------------------------------------------------
\* Properties of an empty upstream list
\* ---------------------------------------------------------------------------

\* the list request of SyncAssetPlatforms or SyncCoinCategories has returned the
\* answer of the API, a 200 with zero records
EmptyListAnswered ==
    /\ pc \in {"SyncAssetPlatforms", "SyncCoinCategories"}
    /\ callState = "returned"
    /\ ret.err = NoErr
    /\ Len(ret.value) = 0
    /\ \E i \in AttemptIdx : Succeeded(callLog[i].resp)

\* C30: when the API answers the list request of SyncAssetPlatforms or
\* SyncCoinCategories with zero records, the sync ends with the error
\* "no ... received from API" and leaves every table as it was.
EmptyListFailsSync ==
    [][EmptyListAnswered =>
        /\ dbVars' = dbVars
        /\ pc' = "done"
        /\ result' # NoErr
        /\ Len(result') = 2
        /\ result'[2].msg \in {"no asset platforms received from API",
                               "no coin categories received from API"}]_vars

\* SyncCoinCategories has failed on an empty list while the table holds the rows
\* of an earlier sync
EmptyListFailsSyncWitness ==
    /\ pc = "done"
    /\ result # NoErr
    /\ Len(result) = 2
    /\ result[2].msg = "no coin categories received from API"
    /\ Len(coin_categories) = ListLen

\* ---------------------------------------------------------------------------
\* Properties of the reads for the count log
\* ---------------------------------------------------------------------------

\* the errors a sync makes of a failed GetAll
GetAllErrors == {"failed to get current coins", "failed to get updated coins",
                 "failed to get current exchanges", "failed to get updated exchanges"}

\* C25: the GetAll reads before and after the fetch-and-store step serve the
\* count log only: no sync returns the error of such a read.
GetAllOnlyLogged ==
    (pc = "done" /\ result # NoErr) => Head(result).msg \notin GetAllErrors

\* ---------------------------------------------------------------------------
\* Properties of soft-deleted rows
\* ---------------------------------------------------------------------------

\* the rows of table t with the natural key k
RowsOfKey(t, k) == {i \in 1..Len(t) : t[i].coingecko_id = k}
\* the last record of the batch with the natural key k
LastOfKey(batch, k) ==
    batch[CHOOSE i \in 1..Len(batch) :
            /\ batch[i].coingecko_id = k
            /\ \A j \in 1..Len(batch) : batch[j].coingecko_id = k => j <= i]
\* the rows that were soft-deleted when the call began and whose natural key is
\* in the batch
Tombstoned ==
    {i \in 1..Len(lastCall.before) :
        /\ lastCall.before[i].deleted_at # <<>>
        /\ \E j \in 1..Len(lastCall.batch) :
            lastCall.batch[j].coingecko_id = lastCall.before[i].coingecko_id}

\* C29: after a successful UpsertBatch of coin categories, coins or exchanges,
\* every row that was soft-deleted and whose natural key is in the batch is the
\* same row, live again (deleted_at NULL) with the name of the batch's last
\* record of that key, and it is the only row of that key.
UpsertRevivesSoftDeleted ==
    (/\ pc = "repoReturned"
     /\ lastCall.op = "UpsertBatch"
     /\ lastCall.repo \in {"coin_categories", "coins", "exchanges"}
     /\ lastCall.err = NoErr)
    => \A i \in Tombstoned :
        LET t == TableOf(lastCall.repo)
            k == lastCall.before[i].coingecko_id
        IN /\ Len(t) >= i
           /\ t[i].id = lastCall.before[i].id
           /\ t[i].coingecko_id = k
           /\ t[i].deleted_at = <<>>
           /\ t[i].name = LastOfKey(lastCall.batch, k).name
           /\ RowsOfKey(t, k) = {i}

\* category "a" was stored as n1 and soft-deleted, and a batch with ("a", n2)
\* has been upserted: one row, live, named n2
UpsertRevivesSoftDeletedWitness ==
    /\ pc = "repoReturned"
    /\ lastCall.op = "UpsertBatch"
    /\ lastCall.repo = "coin_categories"
    /\ lastCall.err = NoErr
    /\ Tombstoned = {1}
    /\ lastCall.before[1].name = "n1"
    /\ Len(lastCall.batch) = 1
    /\ lastCall.batch[1].name = "n2"
    /\ Len(coin_categories) = 1
    /\ coin_categories[1].name = "n2"
    /\ coin_categories[1].deleted_at = <<>>

\* ---------------------------------------------------------------------------
\* Properties of concurrent ticker upserts
\* ---------------------------------------------------------------------------

\* C26: coin_tickers holds at most one row per (coin_id, page), whatever the
\* order in which the statements of the ticker upserts of two runs interleave.
OneTickerRowPerCoinPage ==
    \A i, j \in 1..Len(coin_tickers) :
        (coin_tickers[i].coin_id = coin_tickers[j].coin_id
            /\ coin_tickers[i].page = coin_tickers[j].page) => i = j

\* ---------------------------------------------------------------------------
\* Termination of the syncs
\* ---------------------------------------------------------------------------

\* the syncs, by the name of their control state
Syncs == {"SyncCoins", "SyncCoinsData", "SyncAssetPlatforms", "SyncCoinCategories",
          "SyncExchanges"}

\* C28: a sync that has started eventually returns, also when the upstream has
\* a full page for every page number.
SyncEventuallyReturns == (pc \in Syncs) ~> (pc = "done")

\* every page up to the cap came full, the deadline elapsed while the page after
\* it was being fetched and SyncCoins returned the error of that fetch
SyncEventuallyReturnsWitness ==
    /\ pc = "done"
    /\ op = "GetCoins"
    /\ ctxDone
    /\ page = MaxPages + 1
    /\ Len(coins) = MaxPages * perPage
    /\ result # NoErr
    /\ Head(result).msg = "failed to fetch coins page"

\* ---------------------------------------------------------------------------
\* Properties of main
\* ---------------------------------------------------------------------------

\* the actions of a mode, in the order main calls them
Plan(branch) ==
    CASE branch \in {"migrate", "rollback", "status"} -> <<branch>>
      [] branch = "sync-categories" -> <<"SyncCoinCategories">>
      [] branch = "sync-exchanges" -> <<"SyncExchanges">>
      [] branch = "sync-all" -> <<"SyncAssetPlatforms", "SyncCoinCategories", "SyncExchanges">>
      [] OTHER -> <<"SyncAssetPlatforms">>
\* the positions in mainLog of the actions that returned an error, of those that
\* returned none, of the signals
FailedIdx == {i \in 1..Len(mainLog) : mainLog[i].ev = "return" /\ mainLog[i].failed}
SucceededIdx == {i \in 1..Len(mainLog) : mainLog[i].ev = "return" /\ ~mainLog[i].failed}
SignalIdx == {i \in 1..Len(mainLog) : mainLog[i].ev = "signal"}
\* every action of the mode has returned without error
PlanSucceeded == Cardinality(SucceededIdx) = Len(Plan(Branch(flags)))

\* C21: in every one-shot mode, an error returned by an action of the mode ends
\* the process at once with a non-zero exit status, and the process ends with
\* exit status zero when, and only when, every action of the mode has returned
\* without error.
ExitStatusTellsOutcome ==
    Branch(flags) # "default" =>
        /\ \A i \in FailedIdx :
            /\ i = Len(mainLog)
            /\ mainPc = "exited"
            /\ exitStatus # <<>>
            /\ exitStatus # <<0>>
        /\ PlanSucceeded => (mainPc = "exited" /\ exitStatus = <<0>>)
        /\ exitStatus = <<0>> => PlanSucceeded

\* -sync-all: the platforms and the categories were synced, SyncExchanges
\* returned an error and the process ended with status 1
ExitStatusTellsOutcomeWitness ==
    /\ flags = {"sync-all"}
    /\ Len(mainLog) = 6
    /\ mainLog[6] = Ended("SyncExchanges", TRUE)
    /\ mainPc = "exited"
    /\ exitStatus = <<1>>

\* C22: with -sync-all the syncs are called in the order asset platforms, coin
\* categories, exchanges; each is called only after the one before it has
\* returned without error; a sync runs only between its call and its return;
\* the process ends with status zero only after all three.
SyncAllInOrder ==
    Branch(flags) = "sync-all" =>
        LET order == <<"SyncAssetPlatforms", "SyncCoinCategories", "SyncExchanges">> IN
        /\ \A i \in 1..Len(mainLog) :
            mainLog[i].ev = "call" =>
                /\ i % 2 = 1
                /\ i <= 5
                /\ mainLog[i].name = order[(i + 1) \div 2]
                /\ i > 1 => mainLog[i - 1] = Ended(order[(i - 1) \div 2], FALSE)
        /\ pc \in {"SyncAssetPlatforms", "SyncCoinCategories", "SyncExchanges"} =>
            \E i \in 1..Len(mainLog) :
                /\ mainLog[i] = Called(pc)
                /\ \A j \in (i + 1)..Len(mainLog) : mainLog[j].ev = "signal"
        /\ exitStatus = <<0>> => Len(mainLog) = 6

\* -sync-all: the platforms were synced, SyncCoinCategories returned an error,
\* the process has ended and SyncExchanges was never called
SyncAllInOrderWitness ==
    /\ flags = {"sync-all"}
    /\ mainPc = "exited"
    /\ Len(mainLog) = 4
    /\ mainLog[2] = Ended("SyncAssetPlatforms", FALSE)
    /\ mainLog[4] = Ended("SyncCoinCategories", TRUE)
    /\ Len(asset_platforms) > 0
    /\ exchanges = <<>>

\* C23: in the default mode, after the initial sync has returned an error the
\* process runs on, waiting, until SIGINT or SIGTERM is delivered, and only
\* then ends.
DefaultModeSurvivesSyncFailure ==
    (Branch(flags) = "default" /\ FailedIdx # {}) =>
        IF SignalIdx = {}
        THEN mainPc = "wait" /\ exitStatus = <<>>
        ELSE mainPc = "exited" /\ exitStatus # <<>>

\* no flag: the initial sync has returned an error and main waits for a signal
DefaultModeSurvivesSyncFailureWitness ==
    /\ flags = {}
    /\ mainPc = "wait"
    /\ exitStatus = <<>>
    /\ mainLog = <<Called("SyncAssetPlatforms"), Ended("SyncAssetPlatforms", TRUE)>>
    /\ result # NoErr

====
